---- MODULE Spec2Model ----
(***************************************************************************)
(* Verification model of pystacia / tinyimg: the wand-owning Image of      *)
(* tinyimg, the lazy signature binder (get_c_method), the call dispatcher  *)
(* (c_call, guard), the execution bridge (get_bridge, call) and memoized.  *)
(* Each component has its own specification over the shared variables;     *)
(* the variables of the other components stay at their initial values.     *)
(* SpecInit joins the import of tinyimg with the dispatcher for the         *)
(* library start-up.                                                       *)
(***************************************************************************)
EXTENDS Integers, Sequences, FiniteSets, TLC

\* ---------------------------------------------------------------- bounds
MaxImages == 2
MaxWands == 3
NBindThreads == 2
NCallers == 2
MaxCalls == 3
NMemoThreads == 2
MaxMemoCalls == 3
MaxImageCalls == 3

VARIABLES
    \* tinyimg
    images,        \* Image objects: existence, __wand, __closed
    wands,         \* native MagickWand objects: free / live / destroyed
    destroyCalls,  \* number of DestroyMagickWand calls per native wand
    last,          \* the last Image operation and what it did
    crashed,       \* the process was aborted inside the native library
    tlib,          \* the tinyimg module: imported or not, genesis, exit hook
    \* get_c_method
    sym,           \* the library's symbols: argtypes and restype of each
    bpc,           \* each binder thread's position in get_c_method
    bcall,         \* each binder thread's arguments
    bheld,         \* what each binder thread got from get_c_method
    \* c_call and guard
    cpc,           \* the dispatcher's position in c_call or guard
    creq,          \* the call being dispatched
    cargs,         \* args_: the marshaled argument list
    cres,          \* the native call's result
    clog,          \* native calls and conversions made, in order
    cout,          \* how the call ended
    genesis,       \* how often pystacia ran MagickWandGenesis
    buf,           \* the description buffer of MagickGetException
    \* get_bridge, call and the execution bridge
    env,           \* the value of PYSTACIA_IMPL ("" when it is not set)
    bridge,        \* the memoized bridge's implementation, "none" before
    envAtBuild,    \* PYSTACIA_IMPL when the bridge was built
    envAtCall,     \* PYSTACIA_IMPL at the latest get_bridge()
    tpc,           \* each application thread's position in call
    treq,          \* each application thread's current call
    tout,          \* what each application thread's last call gave it
    queue,         \* requests waiting for the worker, oldest first
    wpc,           \* the worker: waiting, executing or dead
    wcur,          \* the request the worker executes
    resp,          \* the response handed to each blocked caller
    active,        \* the calls executing at the native layer
    submitLog,     \* call ids in submission order
    execLog,       \* call ids in the order their execution started
    answered,      \* ids of the calls whose caller got its answer
    wfail,         \* a callable has raised on the worker
    \* memoized
    cache,         \* __cache: per key, the entry, its lock and its value
    glock,         \* __lock: the thread holding it, 0 when free
    mpc,           \* each thread's position in memoized
    mkey,          \* the key of each thread's call
    minp,          \* the function and arguments of each thread's call
    mret,          \* what each thread's last call gave it
    mcalls,        \* number of calls of the memoized function so far
    bodyRuns,      \* per key, how often the wrapped body was started
    okRuns,        \* per key, how often the wrapped body returned
    anyRaised,     \* per key, whether a run of the wrapped body raised
    \* pystacia.image
    chains,        \* PYSTACIA_NO_CHAINS as the import of the module read it
    wrapped,       \* the attributes of Image replaced by chainable(item)
    pset,          \* the image's format, compression and quality settings
    colors,        \* the Color resources that are allocated and not closed
    colorSeq,      \* how many Color resources were allocated so far
    plast,         \* the last call of a method of Image and what it gave
    pcalls         \* how many calls were made

tinyVars == <<images, wands, destroyCalls, last, crashed>>
bindVars == <<sym, bpc, bcall, bheld>>

callVars == <<cpc, creq, cargs, cres, clog, cout, buf>>

bridgeVars == <<env, bridge, envAtBuild, envAtCall, tpc, treq, tout, queue, wpc, wcur, resp, active,
                submitLog, execLog, answered, wfail>>

memoVars == <<cache, glock, mpc, mkey, minp, mret, mcalls, bodyRuns, okRuns, anyRaised>>

imageVars == <<chains, wrapped, pset, colors, colorSeq, plast, pcalls>>

vars == <<tinyVars, tlib, bindVars, callVars, genesis, bridgeVars, memoVars, imageVars>>

TinyFrame == UNCHANGED <<tlib, genesis, bindVars, callVars, bridgeVars, memoVars, imageVars>>
BindFrame == UNCHANGED <<tinyVars, tlib, genesis, callVars, bridgeVars, memoVars, imageVars>>
CallFrame == UNCHANGED <<tinyVars, tlib, bpc, bcall, bheld, bridgeVars, memoVars, imageVars>>
BridgeFrame == UNCHANGED <<tinyVars, tlib, genesis, bindVars, callVars, memoVars, imageVars>>
MemoFrame == UNCHANGED <<tinyVars, tlib, genesis, bindVars, callVars, bridgeVars, imageVars>>
ImageFrame == UNCHANGED <<tinyVars, tlib, genesis, bindVars, callVars, bridgeVars, memoVars>>

Min(a, b) == IF a < b THEN a ELSE b

\* ================================================================ tinyimg
ImageIds == 1..MaxImages
WandIds == 1..MaxWands
NULL == 0

\* Methods wrapped by only_live that make one guarded native call.
GuardedOps == {"write", "get_blob", "crop", "roll", "effect"}
\* Methods wrapped by only_live that validate their arguments first.
CheckedOps == {"resize", "flip"}
\* Properties wrapped by only_live that read one native value.
GetterOps == {"width", "height", "depth"}

NoOp == [img |-> 0, op |-> "none", closedBefore |-> FALSE,
         outcome |-> "none", native |-> 0]

InitTiny ==
    /\ images = [i \in ImageIds |-> [st |-> "none", wand |-> NULL, closed |-> FALSE, origin |-> 0]]
    /\ wands = [w \in WandIds |-> "free"]
    /\ destroyCalls = [w \in WandIds |-> 0]
    /\ last = NoOp
    /\ crashed = FALSE
    /\ tlib = [st |-> "unloaded", genesis |-> 0, atexit |-> FALSE]

\* import tinyimg: the module body defines Image and then calls init()
\* (line 279).  init loads the library, annotates it, runs
\* MagickWandGenesis and registers MagickWandTerminus with atexit; when the
\* library cannot be loaded or annotated init raises before genesis and the
\* import fails, leaving no module to take Image from.
TinyInit ==
    /\ UNCHANGED <<tinyVars, genesis, bindVars, callVars, bridgeVars, memoVars, imageVars>>
    /\ tlib.st # "loaded"
    /\ \/ tlib' = [st |-> "loaded", genesis |-> tlib.genesis + 1, atexit |-> TRUE]
       \/ tlib' = [tlib EXCEPT !.st = "failed"]

\* Image is reachable once the import of the module has completed
Imported == tlib.st = "loaded"

FreeWands == {w \in WandIds : wands[w] = "free"}
FreeImages == {i \in ImageIds : images[i].st = "none"}
Alive(i) == images[i].st = "alive"

\* cdll.NewMagickWand(): the lowest unused native wand
NewMagickWand == CHOOSE w \in FreeWands : \A v \in FreeWands : w <= v
NewImageId == CHOOSE i \in FreeImages : \A j \in FreeImages : i <= j

\* cdll.DestroyMagickWand(w) on the native layer (NULL is no wand)
DestroyMagickWand(w) ==
    IF w = NULL
    THEN UNCHANGED <<wands, destroyCalls>>
    ELSE /\ wands' = [wands EXCEPT ![w] = "destroyed"]
         /\ destroyCalls' = [destroyCalls EXCEPT ![w] = Min(@ + 1, 2)]

\* only_live: the wrapped method runs only when the image is not closed
only_live(i) == ~images[i].closed

Result(i, op, outcome, native) ==
    [img |-> i, op |-> op, closedBefore |-> images[i].closed,
     outcome |-> outcome, native |-> native]

ClosedError(i, op) ==
    /\ last' = Result(i, op, "closed_error", 0)
    /\ UNCHANGED <<images, wands, destroyCalls, crashed>>

\* the Image object __init__ leaves: it owns wand w and is not closed
\* (origin: the image it was cloned from, 0 when it is no clone)
NewImage(w, from) == [st |-> "alive", wand |-> w, closed |-> FALSE, origin |-> from]

\* Image(): __init__ without blob or wand allocates a new native wand
ImageNew ==
    /\ ~crashed
    /\ TinyFrame
    /\ Imported
    /\ FreeImages # {} /\ FreeWands # {}
    /\ LET i == NewImageId
           w == NewMagickWand
       IN /\ images' = [images EXCEPT ![i] = NewImage(w, 0)]
          /\ wands' = [wands EXCEPT ![w] = "live"]
          /\ last' = [img |-> i, op |-> "init", closedBefore |-> FALSE,
                      outcome |-> "ok", native |-> 1]
    /\ UNCHANGED <<destroyCalls, crashed>>

\* the two lowest unused native wands, for two allocations in one call
SecondWand == CHOOSE w \in FreeWands \ {NewMagickWand} :
                  \A v \in FreeWands \ {NewMagickWand} : w <= v

\* Image(blob=...): __init__ allocates a wand and reads the blob into it
\* under guard; when guard raises, __init__ is left before __closed is set,
\* no Image is handed out and nothing destroys the wand (__del__ of the
\* unfinished object fails on the missing __closed)
ImageNewBlob ==
    /\ ~crashed
    /\ TinyFrame
    /\ Imported
    /\ FreeImages # {} /\ FreeWands # {}
    /\ LET i == NewImageId
           w == NewMagickWand
       IN /\ wands' = [wands EXCEPT ![w] = "live"]
          /\ \/ /\ images' = [images EXCEPT ![i] = NewImage(w, 0)]
                /\ last' = [img |-> i, op |-> "init_blob", closedBefore |-> FALSE,
                            outcome |-> "ok", native |-> 2]
             \/ /\ last' = [img |-> 0, op |-> "init_blob", closedBefore |-> FALSE,
                            outcome |-> "guard_error", native |-> 3]
                /\ UNCHANGED images
    /\ UNCHANGED <<destroyCalls, crashed>>

ReadModes == {"file", "filename", "neither"}

\* Image.read: a wand is allocated first, whatever the arguments.
\*   file:     the result is cls(blob=file), whose __init__ allocates a
\*             second wand; the first one is dropped
\*   filename: a missing file raises IOError, a failed MagickReadImage
\*             raises through guard, else the new Image takes the wand
\*   neither:  the method falls off its end and returns None
ImageRead(mode) ==
    /\ ~crashed
    /\ TinyFrame
    /\ Imported
    /\ FreeWands # {}
    /\ LET w == NewMagickWand
       IN CASE mode = "file" ->
                 /\ FreeImages # {} /\ FreeWands \ {w} # {}
                 /\ LET i == NewImageId
                        w2 == SecondWand
                    IN /\ wands' = [wands EXCEPT ![w] = "live", ![w2] = "live"]
                       /\ \/ /\ images' = [images EXCEPT ![i] = NewImage(w2, 0)]
                             /\ last' = [img |-> i, op |-> "read_file",
                                         closedBefore |-> FALSE,
                                         outcome |-> "ok", native |-> 3]
                          \/ /\ last' = [img |-> 0, op |-> "read_file",
                                         closedBefore |-> FALSE,
                                         outcome |-> "guard_error", native |-> 3]
                             /\ UNCHANGED images
            [] mode = "filename" ->
                 /\ wands' = [wands EXCEPT ![w] = "live"]
                 /\ \/ /\ FreeImages # {}
                       /\ images' = [images EXCEPT ![NewImageId] = NewImage(w, 0)]
                       /\ last' = [img |-> NewImageId, op |-> "read_filename",
                                   closedBefore |-> FALSE,
                                   outcome |-> "ok", native |-> 2]
                    \/ /\ last' = [img |-> 0, op |-> "read_filename",
                                   closedBefore |-> FALSE,
                                   outcome |-> "io_error", native |-> 1]
                       /\ UNCHANGED images
                    \/ /\ last' = [img |-> 0, op |-> "read_filename",
                                   closedBefore |-> FALSE,
                                   outcome |-> "guard_error", native |-> 3]
                       /\ UNCHANGED images
            [] mode = "neither" ->
                 /\ wands' = [wands EXCEPT ![w] = "live"]
                 /\ last' = [img |-> 0, op |-> "read", closedBefore |-> FALSE,
                             outcome |-> "none", native |-> 1]
                 /\ UNCHANGED images
    /\ UNCHANGED <<destroyCalls, crashed>>

\* the wand of the clone: the one CloneMagickWand made
clone_shares_wand(old, new) == old
clone_wand(old, new) == new

\* Image.clone: not wrapped by only_live; CloneMagickWand(self.__wand) is
\* called whatever the state.  On a closed image the wand is None: the
\* native library either aborts on the NULL wand or returns NULL, and then
\* __init__ (wand if wand else NewMagickWand()) allocates a fresh wand.
ImageClone(i) ==
    /\ ~crashed
    /\ TinyFrame
    /\ Alive(i)
    /\ IF images[i].wand # NULL
       THEN /\ FreeImages # {} /\ FreeWands # {}
            /\ LET j == NewImageId
                   w == NewMagickWand
               IN /\ images' = [images EXCEPT ![j] = NewImage(clone_wand(images[i].wand, w), i)]
                  /\ wands' = [wands EXCEPT ![w] = "live"]
            /\ last' = Result(i, "clone", "ok", 1)
            /\ UNCHANGED <<destroyCalls, crashed>>
       ELSE \/ /\ crashed' = TRUE
               /\ last' = Result(i, "clone", "abort", 1)
               /\ UNCHANGED <<images, wands, destroyCalls>>
            \/ /\ FreeImages # {} /\ FreeWands # {}
               /\ LET j == NewImageId
                      w == NewMagickWand
                  IN /\ images' = [images EXCEPT ![j] = NewImage(w, i)]
                     /\ wands' = [wands EXCEPT ![w] = "live"]
               /\ last' = Result(i, "clone", "ok", 2)
               /\ UNCHANGED <<destroyCalls, crashed>>

\* the body of Image.close
CloseBody(i) ==
    /\ DestroyMagickWand(images[i].wand)
    /\ images' = [images EXCEPT ![i].wand = NULL, ![i].closed = TRUE]

\* Image.close
ImageClose(i) ==
    /\ ~crashed
    /\ TinyFrame
    /\ Alive(i)
    /\ IF only_live(i)
       THEN /\ CloseBody(i)
            /\ last' = Result(i, "close", "ok", 1)
            /\ UNCHANGED crashed
       ELSE ClosedError(i, "close")

\* the wand an image holds after a successful eval
eval_keeps_old(old, new) == old
eval_wand(old, new) == new

\* Image.eval: MagickFxImage gives a new wand (guard raises when it gives
\* none), the old wand is destroyed and replaced
ImageEval(i) ==
    /\ ~crashed
    /\ TinyFrame
    /\ Alive(i)
    /\ IF only_live(i)
       THEN \/ /\ FreeWands # {}
               /\ LET w == NewMagickWand
                      old == images[i].wand
                  IN /\ wands' = [v \in WandIds |->
                                    IF v = w THEN "live"
                                    ELSE IF v = old THEN "destroyed"
                                    ELSE wands[v]]
                     /\ destroyCalls' = [v \in WandIds |->
                                    IF v = old THEN Min(destroyCalls[v] + 1, 2)
                                    ELSE destroyCalls[v]]
                     /\ images' = [images EXCEPT ![i].wand = eval_wand(old, w)]
               /\ last' = Result(i, "eval", "ok", 2)
               /\ UNCHANGED crashed
            \/ /\ last' = Result(i, "eval", "guard_error", 3)
               /\ UNCHANGED <<images, wands, destroyCalls, crashed>>
       ELSE ClosedError(i, "eval")

\* Image.__del__: closes the image unless it is closed; the object is gone
ImageDel(i) ==
    /\ ~crashed
    /\ TinyFrame
    /\ Alive(i)
    /\ IF ~images[i].closed
       THEN IF only_live(i)
            THEN /\ DestroyMagickWand(images[i].wand)
                 /\ images' = [images EXCEPT ![i] = [st |-> "gone", wand |-> NULL, closed |-> TRUE,
                                                        origin |-> images[i].origin]]
                 /\ last' = Result(i, "del", "ok", 1)
            ELSE /\ images' = [images EXCEPT ![i].st = "gone"]
                 /\ last' = Result(i, "del", "closed_error", 0)
                 /\ UNCHANGED <<wands, destroyCalls>>
       ELSE /\ images' = [images EXCEPT ![i].st = "gone"]
            /\ last' = Result(i, "del", "ok", 0)
            /\ UNCHANGED <<wands, destroyCalls>>
    /\ UNCHANGED crashed

\* write, get_blob, crop, roll and the effect methods: one guarded call
ImageGuarded(i, op) ==
    /\ ~crashed
    /\ TinyFrame
    /\ Alive(i)
    /\ IF only_live(i)
       THEN /\ \/ last' = Result(i, op, "ok", 1)
               \/ last' = Result(i, op, "guard_error", 3)
            /\ UNCHANGED <<images, wands, destroyCalls, crashed>>
       ELSE ClosedError(i, op)

\* resize and flip: may reject their arguments before the guarded call
ImageChecked(i, op) ==
    /\ ~crashed
    /\ TinyFrame
    /\ Alive(i)
    /\ IF only_live(i)
       THEN /\ \/ last' = Result(i, op, "ok", 1)
               \/ last' = Result(i, op, "guard_error", 3)
               \/ last' = Result(i, op, "arg_error", 0)
            /\ UNCHANGED <<images, wands, destroyCalls, crashed>>
       ELSE ClosedError(i, op)

\* width, height, depth: one unguarded native read
ImageGetter(i, op) ==
    /\ ~crashed
    /\ TinyFrame
    /\ Alive(i)
    /\ IF only_live(i)
       THEN /\ last' = Result(i, op, "ok", 1)
            /\ UNCHANGED <<images, wands, destroyCalls, crashed>>
       ELSE ClosedError(i, op)

\* size: (self.width, self.height); the first getter raises on a closed image
ImageSize(i) ==
    /\ ~crashed
    /\ TinyFrame
    /\ Alive(i)
    /\ IF only_live(i)
       THEN /\ last' = Result(i, "size", "ok", 2)
            /\ UNCHANGED <<images, wands, destroyCalls, crashed>>
       ELSE ClosedError(i, "size")

\* debug: not wrapped by only_live, reads self.__wand.contents.debug; on a
\* closed image __wand is None and the attribute access fails
ImageDebug(i) ==
    /\ ~crashed
    /\ TinyFrame
    /\ Alive(i)
    /\ IF images[i].wand # NULL
       THEN last' = Result(i, "debug", "ok", 0)
       ELSE last' = Result(i, "debug", "attribute_error", 0)
    /\ UNCHANGED <<images, wands, destroyCalls, crashed>>

NextTiny ==
    \/ TinyInit
    \/ ImageNew
    \/ ImageNewBlob
    \/ \E mode \in ReadModes : ImageRead(mode)
    \/ \E i \in ImageIds : ImageClone(i)
    \/ \E i \in ImageIds : ImageClose(i)
    \/ \E i \in ImageIds : ImageEval(i)
    \/ \E i \in ImageIds : ImageDel(i)
    \/ \E i \in ImageIds, op \in GuardedOps : ImageGuarded(i, op)
    \/ \E i \in ImageIds, op \in CheckedOps : ImageChecked(i, op)
    \/ \E i \in ImageIds, op \in GetterOps : ImageGetter(i, op)
    \/ \E i \in ImageIds : ImageSize(i)
    \/ \E i \in ImageIds : ImageDebug(i)


\* ================================================================ binder
BindThreads == 1..NBindThreads

\* ctypes: a foreign function starts with argtypes None and restype c_int
UnsetArgtypes == [set |-> FALSE, types |-> <<>>]
UnsetRestype == "c_int"

\* data: the categories' 'arg' (the receiver type, when the category has one)
TypeArg(cat) ==
    CASE cat \in {"magick", "image"} -> <<"MagickWand_p">>
      [] cat = "pixel" -> <<"PixelWand_p">>
      [] OTHER -> <<>>

\* data: type_data.get('result'), None when the category has no default
TypeResult(cat) ==
    CASE cat = "wand" -> "MagickWand_p"
      [] cat = "pwand" -> "PixelWand_p"
      [] OTHER -> "None"

\* data: entries of the descriptor table.  A logical name is <<name>> or the
\* pair <<verb, noun>>; res is empty when the entry has no result type.
Table == {
    [cat |-> "None", m |-> <<"genesis">>, args |-> <<>>, res |-> <<>>],
    [cat |-> "magick", m |-> <<"set_size">>,
        args |-> <<"c_size_t", "c_size_t">>, res |-> <<"MagickBoolean">>],
    [cat |-> "magick", m |-> <<"get_format">>, args |-> <<>>, res |-> <<"c_char_p">>],
    [cat |-> "magick", m |-> <<"get_exception">>,
        args |-> <<"POINTER(ExceptionType)">>, res |-> <<"c_void_p">>],
    [cat |-> "magick_", m |-> <<"relinquish_memory">>,
        args |-> <<"c_void_p">>, res |-> <<"c_void_p">>],
    [cat |-> "wand", m |-> <<"new">>, args |-> <<>>, res |-> <<>>],
    [cat |-> "wand", m |-> <<"clone">>, args |-> <<"MagickWand_p">>, res |-> <<>>],
    [cat |-> "pwand", m |-> <<"new">>, args |-> <<>>, res |-> <<>>],
    [cat |-> "image", m |-> <<"roll">>,
        args |-> <<"c_ssize_t", "c_ssize_t">>, res |-> <<"MagickBoolean">>],
    [cat |-> "image", m |-> <<"get", "type">>, args |-> <<>>, res |-> <<"enum">>],
    [cat |-> "image", m |-> <<"set", "background_color">>,
        args |-> <<"PixelWand_p">>, res |-> <<"MagickBoolean">>],
    [cat |-> "image", m |-> <<"auto_gamma">>, args |-> <<>>, res |-> <<"MagickBoolean">>],
    [cat |-> "pixel", m |-> <<"set_red">>, args |-> <<"c_double">>, res |-> <<>>],
    [cat |-> "pixel", m |-> <<"set_color">>,
        args |-> <<"c_char_p">>, res |-> <<"MagickBoolean">>] }

method_data(cat, m) == CHOOSE e \in Table : e.cat = cat /\ e.m = m

\* ''.join(x.title() for x in name.split('_'))
Title(name) ==
    CASE name = "" -> ""
      [] name = "genesis" -> "Genesis"
      [] name = "set_size" -> "SetSize"
      [] name = "get_format" -> "GetFormat"
      [] name = "get_exception" -> "GetException"
      [] name = "relinquish_memory" -> "RelinquishMemory"
      [] name = "new" -> "New"
      [] name = "clone" -> "Clone"
      [] name = "roll" -> "Roll"
      [] name = "get" -> "Get"
      [] name = "set" -> "Set"
      [] name = "background_color" -> "BackgroundColor"
      [] name = "type" -> "Type"
      [] name = "auto_gamma" -> "AutoGamma"
      [] name = "set_red" -> "SetRed"
      [] name = "set_color" -> "SetColor"

magick_format(m) == "Magick" \o Title(m[1])

image_format(m) ==
    LET verb == m[1]
        noun == IF Len(m) = 2 THEN m[2] ELSE ""
    IN "Magick" \o Title(verb) \o "Image" \o Title(noun)

pixel_format(m) == "Pixel" \o Title(m[1])

\* the format lambdas of the wand and pwand categories
wand_format(m) == Title(m[1]) \o "MagickWand"
pwand_as_wand(m) == Title(m[1]) \o "MagickWand"
pwand_format(m) == Title(m[1]) \o "PixelWand"

\* type_data['format'](method)
Format(cat, m) ==
    CASE cat = "None" -> "MagickWand" \o Title(m[1])
      [] cat \in {"magick", "magick_"} -> magick_format(m)
      [] cat = "wand" -> wand_format(m)
      [] cat = "pwand" -> pwand_format(m)
      [] cat = "image" -> image_format(m)
      [] cat = "pixel" -> pixel_format(m)

SymbolNames == {Format(e.cat, e.m) : e \in Table}

\* the symbols the loaded library exports (MagickAutoGammaImage is missing
\* from older builds of the library)
Exported == SymbolNames \ {"MagickAutoGammaImage"}

\* the contract get_c_method computes for an entry
ContractArgtypes(cat, m) ==
    [set |-> TRUE, types |-> TypeArg(cat) \o method_data(cat, m).args]

restype_default_only(cat, m) == TypeResult(cat)
ContractRestype(cat, m) ==
    IF method_data(cat, m).res # <<>> THEN method_data(cat, m).res[1]
    ELSE TypeResult(cat)

\* the calls the binder threads make
BindCalls == {
    [cat |-> "magick", m |-> <<"set_size">>, throw |-> TRUE],
    [cat |-> "pixel", m |-> <<"set_red">>, throw |-> TRUE],
    [cat |-> "wand", m |-> <<"new">>, throw |-> TRUE],
    [cat |-> "pwand", m |-> <<"new">>, throw |-> TRUE],
    [cat |-> "image", m |-> <<"auto_gamma">>, throw |-> FALSE],
    [cat |-> "image", m |-> <<"auto_gamma">>, throw |-> TRUE] }

NoCall == [cat |-> "", m |-> <<>>, throw |-> TRUE]
NoHeld == [kind |-> "none", name |-> "", argtypes |-> UnsetArgtypes,
           restype |-> UnsetRestype]

InitBind ==
    /\ sym = [n \in Exported |-> [argtypes |-> UnsetArgtypes, restype |-> UnsetRestype]]
    /\ bpc = [t \in BindThreads |-> "idle"]
    /\ bcall = [t \in BindThreads |-> NoCall]
    /\ bheld = [t \in BindThreads |-> NoHeld]

BName(t) == Format(bcall[t].cat, bcall[t].m)

\* lines 525-528: what a symbol the library does not export gives: False
\* without throw, the AttributeError of getattr with it
absent_always_raises(throw) == "raised"
absent_symbol(throw) == IF throw THEN "raised" ELSE "false"

\* get_c_method, lines 514-528: the name is formatted and the symbol looked
\* up; a missing symbol gives False without throw, AttributeError with it
BindStart(t, c) ==
    /\ BindFrame
    /\ bpc[t] \in {"idle", "done"}
    /\ bcall' = [bcall EXCEPT ![t] = c]
    /\ IF Format(c.cat, c.m) \notin Exported
       THEN /\ bpc' = [bpc EXCEPT ![t] = "done"]
            /\ bheld' = [bheld EXCEPT ![t] =
                  [NoHeld EXCEPT !.kind = absent_symbol(c.throw)]]
       ELSE /\ bpc' = [bpc EXCEPT ![t] = "check"]
            /\ bheld' = [bheld EXCEPT ![t] = NoHeld]
    /\ UNCHANGED sym

\* line 530: if c_method.argtypes == None
BindCheck(t) ==
    /\ BindFrame
    /\ bpc[t] = "check"
    /\ bpc' = [bpc EXCEPT ![t] =
          IF sym[BName(t)].argtypes = UnsetArgtypes THEN "argtypes" ELSE "return"]
    /\ UNCHANGED <<sym, bcall, bheld>>

\* lines 533-538: c_method.argtypes = argtypes
BindArgtypes(t) ==
    /\ BindFrame
    /\ bpc[t] = "argtypes"
    /\ sym' = [sym EXCEPT ![BName(t)].argtypes =
                  ContractArgtypes(bcall[t].cat, bcall[t].m)]
    /\ bpc' = [bpc EXCEPT ![t] = "restype"]
    /\ UNCHANGED <<bcall, bheld>>

\* lines 540-543: c_method.restype = restype
BindRestype(t) ==
    /\ BindFrame
    /\ bpc[t] = "restype"
    /\ sym' = [sym EXCEPT ![BName(t)].restype =
                  ContractRestype(bcall[t].cat, bcall[t].m)]
    /\ bpc' = [bpc EXCEPT ![t] = "return"]
    /\ UNCHANGED <<bcall, bheld>>

\* line 545: return method_name, c_method
BindReturn(t) ==
    /\ BindFrame
    /\ bpc[t] = "return"
    /\ bheld' = [bheld EXCEPT ![t] =
          [kind |-> "pair", name |-> BName(t),
           argtypes |-> sym[BName(t)].argtypes,
           restype |-> sym[BName(t)].restype]]
    /\ bpc' = [bpc EXCEPT ![t] = "done"]
    /\ UNCHANGED <<sym, bcall>>

NextBind ==
    \/ \E t \in BindThreads, c \in BindCalls : BindStart(t, c)
    \/ \E t \in BindThreads : BindCheck(t)
    \/ \E t \in BindThreads : BindArgtypes(t)
    \/ \E t \in BindThreads : BindRestype(t)
    \/ \E t \in BindThreads : BindReturn(t)


\* ============================================================ dispatcher
\* values crossing the dispatcher: t is the Python type, v the value, kind
\* the native object a pointer refers to
Val(t, v) == [t |-> t, v |-> v, kind |-> ""]
Ptr(v, kind) == [t |-> "ptr", v |-> v, kind |-> kind]
NoVal == Val("none", "")

\* receivers: a Resource (class attribute _api_type, raw pointer resource)
\* or a category name
ImageRes == [res |-> TRUE, api |-> "image", ptr |-> "w1", kind |-> "MagickWand"]
ColorRes == [res |-> TRUE, api |-> "pixel", ptr |-> "p1", kind |-> "PixelWand"]
Category(c) == [res |-> FALSE, api |-> c, ptr |-> "", kind |-> ""]
RawWand == [res |-> FALSE, api |-> "", ptr |-> "w1", kind |-> "MagickWand"]

\* a Resource as an argument of c_call
AsArg(obj) == [t |-> "res", v |-> obj.ptr, kind |-> obj.kind]

GivenMsg == "Format unsupported"

\* the calls dispatched
CallInputs == {
    [fn |-> "c_call", obj |-> ImageRes, m |-> <<"roll">>,
        args |-> <<Val("int", "1"), Val("int", "2")>>, msg |-> "", init |-> "absent"],
    [fn |-> "c_call", obj |-> ImageRes, m |-> <<"roll">>,
        args |-> <<Val("int", "1"), Val("int", "2"), Val("int", "3")>>, msg |-> "", init |-> "absent"],
    [fn |-> "c_call", obj |-> ImageRes, m |-> <<"set", "background_color">>,
        args |-> <<AsArg(ColorRes)>>, msg |-> "", init |-> "absent"],
    [fn |-> "c_call", obj |-> ImageRes, m |-> <<"get", "type">>,
        args |-> <<>>, msg |-> "", init |-> "absent"],
    [fn |-> "c_call", obj |-> ImageRes, m |-> <<"auto_gamma">>,
        args |-> <<>>, msg |-> "", init |-> "absent"],
    [fn |-> "c_call", obj |-> ColorRes, m |-> <<"set_color">>,
        args |-> <<Val("str", "red")>>, msg |-> "", init |-> "absent"],
    [fn |-> "c_call", obj |-> ColorRes, m |-> <<"set_red">>,
        args |-> <<Val("float", "1")>>, msg |-> "", init |-> "absent"],
    [fn |-> "c_call", obj |-> Category("magick"), m |-> <<"get_format">>,
        args |-> <<Ptr("w1", "MagickWand")>>, msg |-> "", init |-> "absent"],
    [fn |-> "c_call", obj |-> Category("magick"), m |-> <<"get_format">>,
        args |-> <<Ptr("w1", "MagickWand")>>, msg |-> "", init |-> "false"],
    [fn |-> "c_call", obj |-> Category("magick"), m |-> <<"set_size">>,
        args |-> <<Ptr("w1", "MagickWand"), Val("int", "1"), Val("int", "2")>>,
        msg |-> "", init |-> "absent"],
    [fn |-> "guard", obj |-> RawWand, m |-> <<>>, args |-> <<>>, msg |-> "", init |-> "absent"],
    [fn |-> "guard", obj |-> RawWand, m |-> <<>>, args |-> <<>>, msg |-> GivenMsg, init |-> "absent"] }

NoReq == [fn |-> "", obj |-> Category(""), m |-> <<>>, args |-> <<>>, msg |-> "", init |-> "absent"]
NoOut == [kind |-> "none", exc |-> "", msg |-> "", hasMsg |-> FALSE, val |-> NoVal]
NoBuf == [st |-> "none", text |-> "", releases |-> 0]

\* what MagickGetException can describe a failure with; the library gives
\* an empty description when it recorded no exception
Descriptions == {"unable to open image", ""}

InitCall ==
    /\ cpc = "idle"
    /\ creq = NoReq
    /\ cargs = <<>>
    /\ cres = NoVal
    /\ clog = <<>>
    /\ cout = NoOut
    /\ buf = NoBuf
    /\ genesis = 0

Event(ev, name, h) == [ev |-> ev, name |-> name, h |-> h]

\* get_c_method as c_call runs it: the contract is attached on first use
Bound(s, cat, m) ==
    LET n == Format(cat, m)
    IN IF s[n].argtypes = UnsetArgtypes
       THEN [s EXCEPT ![n] = [argtypes |-> ContractArgtypes(cat, m),
                              restype |-> ContractRestype(cat, m)]]
       ELSE s

CName == Format(creq.obj.api, creq.m)

\* six.b: text to bytes
b(arg) == [arg EXCEPT !.t = "bytes"]
\* native_str: bytes to text
native_str_kept(r) == r
native_str(r) == [r EXCEPT !.t = "str"]

\* c_call lines 562-572: the receiver's pointer first, then every argument
\* zipped with the contract's argtypes
Marshal(obj, args, argtypes) ==
    LET all == IF obj.res THEN <<AsArg(obj)>> \o args ELSE args
        n == Min(Len(all), Len(argtypes))
    IN [k \in 1..n |->
          IF all[k].t = "res" THEN Ptr(all[k].v, all[k].kind)
          ELSE IF argtypes[k] = "c_char_p" THEN b(all[k])
          ELSE all[k]]

\* what the native symbol can give back, by its restype
NativeResults(restype) ==
    CASE restype = "MagickBoolean" -> {Val("bool", "true"), Val("bool", "false")}
      [] restype = "c_char_p" -> {Val("bytes", "PNG")}
      [] restype = "enum" -> {Val("enum", "3")}
      [] restype = "None" -> {NoVal}
      [] OTHER -> {Val("int", "0"), Val("int", "7")}

Raise(exc, msg, hasMsg) ==
    [kind |-> "raise", exc |-> exc, msg |-> msg, hasMsg |-> hasMsg, val |-> NoVal]
Return(v) ==
    [kind |-> "return", exc |-> "", msg |-> "", hasMsg |-> FALSE, val |-> v]

\* c_call line 549: get_c_method(obj, method); getattr raises when the
\* library does not export the symbol
CallStart(r) ==
    /\ CallFrame
    /\ UNCHANGED genesis
    /\ cpc \in {"idle", "done"}
    /\ r.fn = "c_call"
    /\ creq' = r
    /\ cargs' = <<>> /\ cres' = NoVal /\ clog' = <<>> /\ buf' = NoBuf
    /\ IF Format(r.obj.api, r.m) \in Exported
       THEN /\ sym' = Bound(sym, r.obj.api, r.m)
            /\ cpc' = "init"
            /\ cout' = NoOut
       ELSE /\ cpc' = "done"
            /\ cout' = Raise("AttributeError", "no symbol", TRUE)
            /\ UNCHANGED sym

\* c_call lines 551-554: init = kw.pop('__init'), True when it is not given
init_default_off(r) == r.init = "true"
init_flag(r) == r.init # "false"

\* get_dll(init): the loaded library; with init the library is initialized
\* on the first such call, by one run of MagickWandGenesis
get_dll(init, g) == IF init /\ g = 0 THEN 1 ELSE g

\* c_call lines 556-557: if init: get_dll()
CallInit ==
    /\ CallFrame
    /\ cpc = "init"
    /\ genesis' = IF init_flag(creq) THEN get_dll(TRUE, genesis) ELSE genesis
    /\ cpc' = "marshal"
    /\ UNCHANGED <<sym, creq, cargs, cres, clog, cout, buf>>

\* c_call lines 562-572
CallMarshal ==
    /\ CallFrame
    /\ UNCHANGED genesis
    /\ cpc = "marshal"
    /\ cargs' = Marshal(creq.obj, creq.args, sym[CName].argtypes.types)
    /\ cpc' = "invoke"
    /\ UNCHANGED <<sym, creq, cres, clog, cout, buf>>

FirstKind(a) == IF Len(a) > 0 THEN a[1].kind ELSE ""

\* c_call line 574: result = c_method(*args_)
CallInvoke ==
    /\ CallFrame
    /\ UNCHANGED genesis
    /\ cpc = "invoke"
    /\ \E r \in NativeResults(sym[CName].restype) : cres' = r
    /\ clog' = Append(clog, Event("call", CName, FirstKind(cargs)))
    /\ cpc' = "decode"
    /\ UNCHANGED <<sym, creq, cargs, cout, buf>>

\* c_call lines 576-580 and 588: the result is decoded by the restype
CallDecode ==
    /\ CallFrame
    /\ UNCHANGED genesis
    /\ cpc = "decode"
    /\ LET restype == sym[CName].restype
       IN IF restype = "c_char_p"
          THEN cpc' = "done" /\ cout' = Return(native_str(cres))
          ELSE IF restype = "enum"
          THEN cpc' = "done" /\ cout' = Return(Val("int", cres.v))
          ELSE IF restype = "MagickBoolean" /\ cres.v = "false"
          THEN cpc' = "get_exception" /\ UNCHANGED cout
          ELSE cpc' = "done" /\ cout' = Return(cres)
    /\ UNCHANGED <<sym, creq, cargs, cres, clog, buf>>

\* what the native MagickGetException does with the handle it is given: a
\* MagickWand is described; any other object is read as if it were one, and
\* the library aborts on it, ctypes rejects it, or the read happens to work
GetExceptionOutcomes(kind) ==
    IF kind = "MagickWand" THEN {"described"}
    ELSE {"described", "abort", "ArgumentError"}

\* c_call line 582: c_call('magick', 'get_exception', args_[0], exc_type)
CallGetException ==
    /\ CallFrame
    /\ genesis' = get_dll(TRUE, genesis)
    /\ cpc = "get_exception"
    /\ sym' = Bound(sym, "magick", <<"get_exception">>)
    /\ \E o \in GetExceptionOutcomes(FirstKind(cargs)) :
          \/ /\ o = "described"
             /\ \E d \in Descriptions :
                   buf' = [st |-> "allocated", text |-> d, releases |-> 0]
             /\ clog' = Append(clog, Event("call", "MagickGetException",
                                           FirstKind(cargs)))
             /\ cpc' = "text"
             /\ UNCHANGED cout
          \/ /\ o = "abort"
             /\ clog' = Append(clog, Event("call", "MagickGetException",
                                           FirstKind(cargs)))
             /\ cpc' = "done"
             /\ cout' = [NoOut EXCEPT !.kind = "abort"]
             /\ UNCHANGED buf
          \/ /\ o = "ArgumentError"
             /\ cpc' = "done"
             /\ cout' = Raise("ArgumentError", "wrong type", TRUE)
             /\ UNCHANGED <<clog, buf>>
    /\ UNCHANGED <<creq, cargs, cres>>

\* c_call line 584: PystaciaException(native_str(string_at(description)))
CallText ==
    /\ CallFrame
    /\ UNCHANGED genesis
    /\ cpc = "text"
    /\ cout' = [kind |-> "pending", exc |-> "PystaciaException",
                msg |-> buf.text, hasMsg |-> TRUE, val |-> NoVal]
    /\ clog' = Append(clog, Event("text", "string_at", ""))
    /\ cpc' = "relinquish"
    /\ UNCHANGED <<sym, creq, cargs, cres, buf>>

\* c_call lines 585-586: finally c_call('magick_', 'relinquish_memory',
\* description)
CallRelinquish ==
    /\ CallFrame
    /\ genesis' = get_dll(TRUE, genesis)
    /\ cpc = "relinquish"
    /\ sym' = Bound(sym, "magick_", <<"relinquish_memory">>)
    /\ buf' = [buf EXCEPT !.st = "released", !.releases = Min(@ + 1, 2)]
    /\ clog' = Append(clog, Event("call", "MagickRelinquishMemory", ""))
    /\ cpc' = "raise"
    /\ UNCHANGED <<creq, cargs, cres, cout>>

\* the exception raised at line 584 leaves c_call
CallRaise ==
    /\ CallFrame
    /\ UNCHANGED genesis
    /\ cpc = "raise"
    /\ cout' = [cout EXCEPT !.kind = "raise"]
    /\ clog' = Append(clog, Event("raise", cout.exc, ""))
    /\ cpc' = "done"
    /\ UNCHANGED <<sym, creq, cargs, cres, buf>>

\* guard lines 294-295 and 308: result = callable(); a truthy result is
\* returned
GuardStart(r) ==
    /\ CallFrame
    /\ UNCHANGED genesis
    /\ cpc \in {"idle", "done"}
    /\ r.fn = "guard"
    /\ creq' = r
    /\ cargs' = <<>> /\ buf' = NoBuf
    /\ clog' = <<Event("call", "callable", r.obj.kind)>>
    /\ \E v \in {Val("bool", "true"), Val("bool", "false"), Val("int", "7"),
                 Val("int", "0")} :
          /\ cres' = v
          /\ IF v.v \in {"false", "0"}
             THEN cpc' = "g_failed" /\ cout' = NoOut
             ELSE cpc' = "done" /\ cout' = Return(v)
    /\ UNCHANGED sym

\* what cdll.MagickGetException gives guard: a description, an empty one,
\* or a null pointer
GuardDescriptions == {[null |-> FALSE, text |-> d] : d \in Descriptions}
                         \cup {[null |-> TRUE, text |-> ""]}

\* guard lines 296-301: without msg the description is fetched and cast to
\* text (None for a null pointer); the exception is built
GuardFailed ==
    /\ CallFrame
    /\ UNCHANGED genesis
    /\ cpc = "g_failed"
    /\ IF creq.msg # ""
       THEN /\ cout' = [kind |-> "pending", exc |-> "PystaciaException",
                        msg |-> creq.msg, hasMsg |-> TRUE, val |-> NoVal]
            /\ UNCHANGED <<clog, buf>>
       ELSE \E d \in GuardDescriptions :
              /\ buf' = IF d.null THEN NoBuf
                        ELSE [st |-> "allocated", text |-> d.text, releases |-> 0]
              /\ cout' = [kind |-> "pending", exc |-> "PystaciaException",
                          msg |-> d.text, hasMsg |-> ~d.null, val |-> NoVal]
              /\ clog' = Append(clog, Event("call", "MagickGetException",
                                            creq.obj.kind))
    /\ cpc' = "g_release"
    /\ UNCHANGED <<sym, creq, cargs, cres>>

\* the description buffer is never handed back
description_kept(d) == d

\* guard lines 303-304: cdll.MagickRelinquishMemory(description) for a
\* non-null description
release_description(d) ==
    IF d.st = "allocated"
    THEN [d EXCEPT !.st = "released", !.releases = Min(@ + 1, 2)]
    ELSE d

\* guard lines 303-306: a non-null description is released, exc is raised
GuardRaise ==
    /\ CallFrame
    /\ UNCHANGED genesis
    /\ cpc = "g_release"
    /\ IF buf.st = "allocated"
       THEN /\ buf' = release_description(buf)
            /\ clog' = clog \o <<Event("call", "MagickRelinquishMemory", ""),
                                 Event("raise", cout.exc, "")>>
       ELSE /\ clog' = Append(clog, Event("raise", cout.exc, ""))
            /\ UNCHANGED buf
    /\ cout' = [cout EXCEPT !.kind = "raise"]
    /\ cpc' = "done"
    /\ UNCHANGED <<sym, creq, cargs, cres>>

NextCall ==
    \/ \E r \in CallInputs : CallStart(r)
    \/ CallInit
    \/ CallMarshal
    \/ CallInvoke
    \/ CallDecode
    \/ CallGetException
    \/ CallText
    \/ CallRelinquish
    \/ CallRaise
    \/ \E r \in CallInputs : GuardStart(r)
    \/ GuardFailed
    \/ GuardRaise


\* ================================================================ bridge
Callers == 1..NCallers

\* values of the environment variable PYSTACIA_IMPL
EnvValues == {"", "simple", "thread"}

\* str.upper()
Upper(v) ==
    CASE v = "simple" -> "SIMPLE"
      [] v = "thread" -> "THREAD"
      [] v = "png" -> "PNG"
      [] v = "jpeg" -> "JPEG"
      [] v = "xyz" -> "XYZ"
      [] OTHER -> v

\* get_bridge lines 492-497: the implementation the bridge is built on
get_bridge_simple(e) == "SimpleImpl"
get_bridge_exact(e) == IF e = "SIMPLE" THEN "SimpleImpl" ELSE "ThreadImpl"
get_bridge_impl(e) == IF Upper(e) = "SIMPLE" THEN "SimpleImpl" ELSE "ThreadImpl"

\* get_bridge is memoized: the first call builds the bridge
get_bridge_again == get_bridge_impl(env)
get_bridge == IF bridge = "none" THEN get_bridge_impl(env) ELSE bridge

NoRequest == [id |-> 0, caller |-> 0, raises |-> FALSE]
NoAnswer == [kind |-> "none", id |-> 0]

\* what running a request's callable gives: its value, or its exception
\* (the call's id stands for the value and for the message)
Outcome(r) == [kind |-> IF r.raises THEN "raise" ELSE "return", id |-> r.id]

\* call line 507: return bridge.call(callable_, *args, **kw)
call_swallows(a) == IF a.kind = "raise" THEN [kind |-> "return", id |-> 0] ELSE a
call_result(a) == a

InitBridge ==
    /\ env = ""
    /\ bridge = "none"
    /\ envAtBuild = ""
    /\ envAtCall = ""
    /\ tpc = [a \in Callers |-> "idle"]
    /\ treq = [a \in Callers |-> NoRequest]
    /\ tout = [a \in Callers |-> NoAnswer]
    /\ queue = <<>>
    /\ wpc = "waiting"
    /\ wcur = NoRequest
    /\ resp = [a \in Callers |-> NoAnswer]
    /\ active = {}
    /\ submitLog = <<>>
    /\ execLog = <<>>
    /\ answered = {}
    /\ wfail = FALSE

\* os.environ['PYSTACIA_IMPL'] = v, at any time
SetEnv(v) ==
    /\ BridgeFrame
    /\ v # env
    /\ env' = v
    /\ UNCHANGED <<bridge, envAtBuild, envAtCall, tpc, treq, tout, queue, wpc,
                   wcur, resp, active, submitLog, execLog, answered, wfail>>

\* get_bridge() as the first statement of call, or called on its own: the
\* memoized bridge, built from the environment when there is none yet
GetBridge ==
    /\ bridge' = get_bridge
    /\ envAtBuild' = IF bridge = "none" THEN env ELSE envAtBuild
    /\ envAtCall' = env

\* a thread calls get_bridge() without making a call
GetBridgeOnly(a) ==
    /\ BridgeFrame
    /\ tpc[a] = "idle"
    /\ GetBridge
    /\ UNCHANGED <<env, tpc, treq, tout, queue, wpc, wcur, resp, active,
                   submitLog, execLog, answered, wfail>>

NewRequest(a, raises) ==
    [id |-> Len(submitLog) + 1, caller |-> a, raises |-> raises]

\* call lines 505-507 on the funneled bridge: the request is handed to the
\* worker and the caller blocks
CallFunneled(a, raises) ==
    /\ BridgeFrame
    /\ tpc[a] = "idle"
    /\ Len(submitLog) < MaxCalls
    /\ get_bridge = "ThreadImpl"
    /\ GetBridge
    /\ LET r == NewRequest(a, raises)
       IN /\ treq' = [treq EXCEPT ![a] = r]
          /\ queue' = Append(queue, r)
          /\ submitLog' = Append(submitLog, r.id)
    /\ tpc' = [tpc EXCEPT ![a] = "blocked"]
    /\ tout' = [tout EXCEPT ![a] = NoAnswer]
    /\ UNCHANGED <<env, wpc, wcur, resp, active, execLog, answered, wfail>>

\* call lines 505-507 on the direct bridge: the caller is about to run the
\* callable in its own thread
CallDirect(a, raises) ==
    /\ BridgeFrame
    /\ tpc[a] = "idle"
    /\ Len(submitLog) < MaxCalls
    /\ get_bridge = "SimpleImpl"
    /\ GetBridge
    /\ LET r == NewRequest(a, raises)
       IN /\ treq' = [treq EXCEPT ![a] = r]
          /\ submitLog' = Append(submitLog, r.id)
    /\ tpc' = [tpc EXCEPT ![a] = "entered"]
    /\ tout' = [tout EXCEPT ![a] = NoAnswer]
    /\ UNCHANGED <<env, queue, wpc, wcur, resp, active, execLog, answered, wfail>>

\* direct bridge: the callable starts in the caller's thread
DirectExec(a) ==
    /\ BridgeFrame
    /\ tpc[a] = "entered"
    /\ active' = active \cup {treq[a].id}
    /\ execLog' = Append(execLog, treq[a].id)
    /\ tpc' = [tpc EXCEPT ![a] = "direct"]
    /\ UNCHANGED <<env, bridge, envAtBuild, envAtCall, treq, tout, queue, wpc, wcur, resp, submitLog,
                   answered, wfail>>

\* direct bridge: the callable ends; the caller has its value or exception
DirectFinish(a) ==
    /\ BridgeFrame
    /\ tpc[a] = "direct"
    /\ active' = active \ {treq[a].id}
    /\ tout' = [tout EXCEPT ![a] = call_result(Outcome(treq[a]))]
    /\ answered' = answered \cup {treq[a].id}
    /\ tpc' = [tpc EXCEPT ![a] = "idle"]
    /\ UNCHANGED <<env, bridge, envAtBuild, envAtCall, treq, queue, wpc, wcur, resp, submitLog, execLog,
                   wfail>>

\* the worker takes the oldest request and starts its callable
WorkerTake ==
    /\ BridgeFrame
    /\ wpc = "waiting"
    /\ queue # <<>>
    /\ wcur' = Head(queue)
    /\ queue' = Tail(queue)
    /\ active' = active \cup {Head(queue).id}
    /\ execLog' = Append(execLog, Head(queue).id)
    /\ wpc' = "executing"
    /\ UNCHANGED <<env, bridge, envAtBuild, envAtCall, tpc, treq, tout, resp, submitLog, answered, wfail>>

\* the worker after a callable has ended: it serves the next request
worker_dies_on_error(raised) == IF raised THEN "dead" ELSE "waiting"
worker_after(raised) == "waiting"

\* what the worker hands back for a request: the value of its callable, or
\* the exception it raised
worker_swallows(r) == [kind |-> "return", id |-> IF r.raises THEN 0 ELSE r.id]
worker_response(r) == Outcome(r)

\* the callable ends on the worker: its value or its exception is handed
\* to the caller that submitted it
WorkerFinish ==
    /\ BridgeFrame
    /\ wpc = "executing"
    /\ active' = active \ {wcur.id}
    /\ resp' = [resp EXCEPT ![wcur.caller] = worker_response(wcur)]
    /\ wfail' = (wfail \/ wcur.raises)
    /\ wpc' = worker_after(wcur.raises)
    /\ wcur' = NoRequest
    /\ UNCHANGED <<env, bridge, envAtBuild, envAtCall, tpc, treq, tout, queue, submitLog, execLog,
                   answered>>

\* the blocked caller is resumed with the response: call returns the value
\* or raises the exception
CallerResume(a) ==
    /\ BridgeFrame
    /\ tpc[a] = "blocked"
    /\ resp[a] # NoAnswer
    /\ tout' = [tout EXCEPT ![a] = call_result(resp[a])]
    /\ answered' = answered \cup {resp[a].id}
    /\ resp' = [resp EXCEPT ![a] = NoAnswer]
    /\ tpc' = [tpc EXCEPT ![a] = "idle"]
    /\ UNCHANGED <<env, bridge, envAtBuild, envAtCall, treq, queue, wpc, wcur, active, submitLog,
                   execLog, wfail>>

NextBridge ==
    \/ \E v \in EnvValues : SetEnv(v)
    \/ \E a \in Callers : GetBridgeOnly(a)
    \/ \E a \in Callers, raises \in BOOLEAN : CallFunneled(a, raises)
    \/ \E a \in Callers, raises \in BOOLEAN : CallDirect(a, raises)
    \/ \E a \in Callers : DirectExec(a)
    \/ \E a \in Callers : DirectFinish(a)
    \/ WorkerTake
    \/ WorkerFinish
    \/ \E a \in Callers : CallerResume(a)


\* ============================================================== memoized
MemoThreads == 1..NMemoThreads

\* the calls made: producer(), producer(1) and another memoized function,
\* as the wrapper built by decorator hands them on (positional, no keywords)
MemoInputs == {[f |-> "producer", args |-> <<>>, kw |-> {}],
               [f |-> "producer", args |-> <<1>>, kw |-> {}],
               [f |-> "get_bridge", args |-> <<>>, kw |-> {}]}

\* line 34: key = f, args, frozenset(kw.items())
key_of_function(f, args, kw) == [f |-> f, args |-> <<>>, kw |-> {}]
key(f, args, kw) == [f |-> f, args |-> args, kw |-> kw]

MemoKeys == {key(c.f, c.args, c.kw) : c \in MemoInputs}

\* what a run of the body returns: the object made by run number `run` of
\* f(*args), which is true or false as a condition (None, 0, '' are false)
NoValue == [f |-> "", args |-> <<>>, run |-> 0, truth |-> FALSE]
NoEntry == [present |-> FALSE, lock |-> 0, hasValue |-> FALSE, value |-> NoValue]
NoResult == [kind |-> "none", val |-> NoValue]

InitMemo ==
    /\ cache = [k \in MemoKeys |-> NoEntry]
    /\ glock = 0
    /\ mpc = [t \in MemoThreads |-> "idle"]
    /\ mkey = [t \in MemoThreads |-> key("producer", <<>>, {})]
    /\ minp = [t \in MemoThreads |-> [f |-> "producer", args |-> <<>>, kw |-> {}]]
    /\ mret = [t \in MemoThreads |-> NoResult]
    /\ mcalls = 0
    /\ bodyRuns = [k \in MemoKeys |-> 0]
    /\ okRuns = [k \in MemoKeys |-> 0]
    /\ anyRaised = [k \in MemoKeys |-> FALSE]

\* memoized lines 34-35: if key not in __cache
MemoCall(t, c) ==
    /\ MemoFrame
    /\ mpc[t] \in {"idle", "done"}
    /\ mcalls < MaxMemoCalls
    /\ mcalls' = mcalls + 1
    /\ minp' = [minp EXCEPT ![t] = c]
    /\ mkey' = [mkey EXCEPT ![t] = key(c.f, c.args, c.kw)]
    /\ mret' = [mret EXCEPT ![t] = NoResult]
    /\ mpc' = [mpc EXCEPT ![t] = IF cache[key(c.f, c.args, c.kw)].present
                                 THEN "lookup" ELSE "glock"]
    /\ UNCHANGED <<cache, glock, bodyRuns, okRuns, anyRaised>>

\* line 36: with __lock
MemoLock(t) ==
    /\ MemoFrame
    /\ mpc[t] = "glock"
    /\ glock = 0
    /\ glock' = t
    /\ mpc' = [mpc EXCEPT ![t] = "create"]
    /\ UNCHANGED <<cache, mkey, minp, mret, mcalls, bodyRuns, okRuns, anyRaised>>

\* lines 37-38: under __lock the entry is created unless it is there; the
\* lock is released
MemoCreate(t) ==
    /\ MemoFrame
    /\ mpc[t] = "create"
    /\ cache' = IF cache[mkey[t]].present THEN cache
                ELSE [cache EXCEPT ![mkey[t]].present = TRUE]
    /\ glock' = 0
    /\ mpc' = [mpc EXCEPT ![t] = "lookup"]
    /\ UNCHANGED <<mkey, minp, mret, mcalls, bodyRuns, okRuns, anyRaised>>

\* lines 40-41: key_cache = __cache[key]; if 'value' not in key_cache
MemoLookup(t) ==
    /\ MemoFrame
    /\ mpc[t] = "lookup"
    /\ mpc' = [mpc EXCEPT ![t] = IF cache[mkey[t]].hasValue THEN "return" ELSE "klock"]
    /\ UNCHANGED <<cache, glock, mkey, minp, mret, mcalls, bodyRuns, okRuns, anyRaised>>

\* line 42: with key_cache['lock'] (an RLock: free, or held by this thread)
MemoKeyLock(t) ==
    /\ MemoFrame
    /\ mpc[t] = "klock"
    /\ cache[mkey[t]].lock \in {0, t}
    /\ cache' = [cache EXCEPT ![mkey[t]].lock = t]
    /\ mpc' = [mpc EXCEPT ![t] = "recheck"]
    /\ UNCHANGED <<glock, mkey, minp, mret, mcalls, bodyRuns, okRuns, anyRaised>>

\* line 43: if 'value' not in key_cache, under the key's lock
no_recheck(k) == TRUE
recheck_truth(k) == ~(cache[k].hasValue /\ cache[k].value.truth)
recheck_value(k) == ~cache[k].hasValue

\* lines 43-48: the body is started unless the value is there by now
MemoRecheck(t) ==
    /\ MemoFrame
    /\ mpc[t] = "recheck"
    /\ IF recheck_value(mkey[t])
       THEN /\ bodyRuns' = [bodyRuns EXCEPT ![mkey[t]] = @ + 1]
            /\ mpc' = [mpc EXCEPT ![t] = "body"]
            /\ UNCHANGED cache
       ELSE /\ cache' = [cache EXCEPT ![mkey[t]].lock = 0]
            /\ mpc' = [mpc EXCEPT ![t] = "return"]
            /\ UNCHANGED bodyRuns
    /\ UNCHANGED <<glock, mkey, minp, mret, mcalls, okRuns, anyRaised>>

\* lines 48-50: result = f(*args, **kw); key_cache['value'] = result; the
\* key's lock is released.  Each run of the body makes a new object, which
\* may be None or another false value.
MemoBodyReturn(t) ==
    /\ MemoFrame
    /\ mpc[t] = "body"
    /\ \E truth \in BOOLEAN :
          cache' = [cache EXCEPT ![mkey[t]].hasValue = TRUE,
                                 ![mkey[t]].value =
                                     [f |-> minp[t].f, args |-> minp[t].args,
                                      run |-> bodyRuns[mkey[t]], truth |-> truth],
                                 ![mkey[t]].lock = 0]
    /\ okRuns' = [okRuns EXCEPT ![mkey[t]] = @ + 1]
    /\ mpc' = [mpc EXCEPT ![t] = "return"]
    /\ UNCHANGED <<glock, mkey, minp, mret, mcalls, bodyRuns, anyRaised>>

\* the key's lock stays with the thread whose body raised
with_exit_held(entry) == entry

\* line 42: the with statement releases key_cache['lock'] when its block is
\* left by an exception
with_exit(entry) == [entry EXCEPT !.lock = 0]

\* line 48: f raises; the with statement releases the key's lock and the
\* exception leaves memoized
MemoBodyRaise(t) ==
    /\ MemoFrame
    /\ mpc[t] = "body"
    /\ cache' = [cache EXCEPT ![mkey[t]] = with_exit(@)]
    /\ anyRaised' = [anyRaised EXCEPT ![mkey[t]] = TRUE]
    /\ mret' = [mret EXCEPT ![t] = [kind |-> "raise", val |-> NoValue]]
    /\ mpc' = [mpc EXCEPT ![t] = "done"]
    /\ UNCHANGED <<glock, mkey, minp, mcalls, bodyRuns, okRuns>>

\* line 54: return key_cache['value']
MemoReturn(t) ==
    /\ MemoFrame
    /\ mpc[t] = "return"
    /\ mret' = [mret EXCEPT ![t] = [kind |-> "return", val |-> cache[mkey[t]].value]]
    /\ mpc' = [mpc EXCEPT ![t] = "done"]
    /\ UNCHANGED <<cache, glock, mkey, minp, mcalls, bodyRuns, okRuns, anyRaised>>

NextMemo ==
    \/ \E t \in MemoThreads, c \in MemoInputs : MemoCall(t, c)
    \/ \E t \in MemoThreads : MemoLock(t)
    \/ \E t \in MemoThreads : MemoCreate(t)
    \/ \E t \in MemoThreads : MemoLookup(t)
    \/ \E t \in MemoThreads : MemoKeyLock(t)
    \/ \E t \in MemoThreads : MemoRecheck(t)
    \/ \E t \in MemoThreads : MemoBodyReturn(t)
    \/ \E t \in MemoThreads : MemoBodyRaise(t)
    \/ \E t \in MemoThreads : MemoReturn(t)

\* ------------------------------------------------------ pystacia.image
\* Image.__dict__: the attributes of the class.  doc is "chained" for a
\* docstring with 'This method can be chained', "rtype" for one with
\* ':rtype:', "plain" for one with neither and "none" without docstring;
\* own is what the body of the method returns.
ImageDict == {
    [name |-> "_free", callable |-> TRUE, doc |-> "none", own |-> "None"],
    [name |-> "get_blob", callable |-> TRUE, doc |-> "rtype", own |-> "blob"],
    [name |-> "transpose", callable |-> TRUE, doc |-> "chained", own |-> "self"],
    [name |-> "roll", callable |-> TRUE, doc |-> "chained", own |-> "None"],
    [name |-> "trim", callable |-> TRUE, doc |-> "chained", own |-> "None"],
    [name |-> "wave", callable |-> TRUE, doc |-> "chained", own |-> "None"],
    [name |-> "fill", callable |-> TRUE, doc |-> "chained", own |-> "None"],
    [name |-> "shadow", callable |-> TRUE, doc |-> "none", own |-> "None"],
    [name |-> "splice", callable |-> TRUE, doc |-> "chained", own |-> "None"],
    [name |-> "width", callable |-> FALSE, doc |-> "rtype", own |-> "int"],
    [name |-> "checkerboard", callable |-> TRUE, doc |-> "plain", own |-> "None"],
    [name |-> "__repr__", callable |-> TRUE, doc |-> "none", own |-> "str"] }

Method(n) == CHOOSE d \in ImageDict : d.name = n

\* key.startswith('_')
Private(n) == n \in {"_free", "__repr__"}

\* what os.environ may hold for PYSTACIA_NO_CHAINS
ChainValues == {"unset", "", "1"}

\* lines 1386-1389: disable_chains is the value of the variable, False
\* when it is not set; it is used as a condition
disable_chains(v) == v \notin {"unset", ""}

\* line 1396: callable(item) and item.__doc__ and ':rtype:' not in
\* item.__doc__
wraps(d) == d.callable /\ d.doc \in {"chained", "plain"}

\* lines 1391-1398: the public attributes of Image that are wrapped
Wrapped(v) ==
    IF disable_chains(v) THEN {}
    ELSE {d.name : d \in {x \in ImageDict : ~Private(x.name) /\ wraps(x)}}

\* chainable hands on what f returned
chainable_passthrough(own) == own

\* util.py lines 15-19: f(obj, *args, **kw); return obj
chainable(own) == "self"

\* what a call of method n gives its caller when the body returned own
Returned(n, own) == IF n \in wrapped THEN chainable(own) ELSE own

Settings == [format : {"PNG", "JPEG"}, compression : {"no", "zip"},
             quality : {"75", "10"}]

NoMethod == [m |-> "", ret |-> "", raised |-> FALSE, msg |-> "",
           before |-> [format |-> "", compression |-> "", quality |-> ""],
           live |-> {}, given |-> 0]

InitImage ==
    /\ chains = "unread"
    /\ wrapped = {}
    /\ pset = [format |-> "PNG", compression |-> "no", quality |-> "75"]
    /\ colors = {}
    /\ colorSeq = 0
    /\ plast = NoMethod
    /\ pcalls = 0

\* the import of pystacia.image: lines 1386-1398 run once
ImportImage(v) ==
    /\ ImageFrame
    /\ chains = "unread"
    /\ chains' = v
    /\ wrapped' = Wrapped(v)
    /\ UNCHANGED <<pset, colors, colorSeq, plast, pcalls>>

\* one more call of a method of an image, after the import
Calling ==
    /\ chains # "unread"
    /\ pcalls < MaxImageCalls
    /\ pcalls' = pcalls + 1
    /\ UNCHANGED <<chains, wrapped>>

\* what the call gave: the value for the caller, or the exception
Gave(n, raised, msg, given) ==
    [m |-> n, ret |-> IF raised THEN "raise" ELSE Returned(n, Method(n).own),
     raised |-> raised, msg |-> msg, before |-> pset, live |-> colors,
     given |-> given]

\* the program makes a Color of its own (color.from_string and the like)
ColorNew ==
    /\ ImageFrame
    /\ Calling
    /\ colorSeq' = colorSeq + 1
    /\ colors' = colors \cup {colorSeq + 1}
    /\ plast' = NoMethod
    /\ UNCHANGED pset

\* transpose, roll, shadow (and the other methods that make one guarded
\* native call): the guard raises or the body ends
ImageMethod(n) ==
    /\ ImageFrame
    /\ Calling
    /\ n \in {"transpose", "roll", "shadow", "checkerboard"}
    /\ \E raised \in BOOLEAN : plast' = Gave(n, raised, "", 0)
    /\ UNCHANGED <<pset, colors, colorSeq>>

\* Image.trim lines 533-556: a transparent background is made unless one is
\* given; old_color is made; four guarded calls; the background that was
\* made here is closed
trim(background) ==
    /\ ImageFrame
    /\ Calling
    /\ background \in colors \cup {0}
    /\ LET made == IF background = 0 THEN {colorSeq + 1} ELSE {}
           bg == IF background = 0 THEN colorSeq + 1 ELSE background
           old_color == colorSeq + Cardinality(made) + 1
       IN /\ colorSeq' = old_color
          /\ \E raised \in BOOLEAN :
                /\ colors' = IF raised THEN colors \cup made \cup {old_color}
                             ELSE (colors \cup made \cup {old_color}) \ made
                /\ plast' = Gave("trim", raised, "", background)
    /\ UNCHANGED pset

\* Image.wave lines 892-916 and Image.splice lines 1161-1182: a transparent
\* color and old_color are made, the guarded calls run, both are closed
TwoTemporaries(n) ==
    /\ ImageFrame
    /\ Calling
    /\ n \in {"wave", "splice"}
    /\ LET made == {colorSeq + 1, colorSeq + 2}
       IN /\ colorSeq' = colorSeq + 2
          /\ \E raised \in BOOLEAN :
                /\ colors' = IF raised THEN colors \cup made
                             ELSE (colors \cup made) \ made
                /\ plast' = Gave(n, raised, "", 0)
    /\ UNCHANGED pset

\* Image.fill lines 1054-1063: blend is made from the alpha of fill, the
\* guarded call runs, blend is closed
fill(c) ==
    /\ ImageFrame
    /\ Calling
    /\ c \in colors
    /\ LET blend == colorSeq + 1
       IN /\ colorSeq' = blend
          /\ \E raised \in BOOLEAN :
                /\ colors' = IF raised THEN colors \cup {blend}
                             ELSE (colors \cup {blend}) \ {blend}
                /\ plast' = Gave("fill", raised, "", c)
    /\ UNCHANGED pset

\* the guarded calls of get_blob, in the order of the code: 1 set the
\* compression (254), 2 set the quality (260), 3 set the format (268),
\* 4 get the blob (273), 5 restore the format (279), 6 restore the quality
\* (283), 7 restore the compression (287).  Stages 1 and 7 run when a
\* compression is given, 2 and 6 when a quality is given.
Runs(stage, compression, quality) ==
    CASE stage \in {1, 7} -> compression # "None"
      [] stage \in {2, 6} -> quality # "None"
      [] OTHER -> TRUE

\* MagickSetFormat knows the format
Supported(f) == f \in {"PNG", "JPEG"}

\* a setting written by stage set and written back by stage reset holds the
\* new value when the call is left by a raise of a stage in between
Changed(set, reset, fail) == set < fail /\ fail <= reset

\* the settings when get_blob is left: by the guard of stage fail, or at
\* its end (fail = 0)
blob_settings(s, format, compression, quality, fail) ==
    [format |-> IF Changed(3, 5, fail) THEN Upper(format) ELSE s.format,
     compression |-> IF compression # "None" /\ Changed(1, 7, fail)
                     THEN compression ELSE s.compression,
     quality |-> IF quality # "None" /\ Changed(2, 6, fail)
                 THEN quality ELSE s.quality]

\* Image.get_blob lines 250-293
get_blob(format, compression, quality) ==
    /\ ImageFrame
    /\ Calling
    /\ \E fail \in 0..7 :
          /\ fail # 0 => Runs(fail, compression, quality)
          /\ ~Supported(Upper(format)) => fail \in 1..3
          /\ pset' = blob_settings(pset, format, compression, quality, fail)
          /\ plast' = Gave("get_blob", fail # 0,
                           IF fail = 3
                           THEN "Format \"" \o Upper(format) \o "\" unsupported"
                           ELSE "", 0)
    /\ UNCHANGED <<colors, colorSeq>>

NextImage ==
    \/ \E v \in ChainValues : ImportImage(v)
    \/ ColorNew
    \/ \E n \in {"transpose", "roll", "shadow", "checkerboard"} : ImageMethod(n)
    \/ \E c \in 0..(2 * MaxImageCalls) : trim(c)
    \/ \E n \in {"wave", "splice"} : TwoTemporaries(n)
    \/ \E c \in 1..(2 * MaxImageCalls) : fill(c)
    \/ \E f \in {"png", "jpeg", "xyz"}, c \in {"None", "zip"},
          q \in {"None", "10"} : get_blob(f, c, q)

\* what a thread inside memoized does next, once it is scheduled
MemoStep(t) ==
    \/ MemoLock(t)
    \/ MemoCreate(t)
    \/ MemoLookup(t)
    \/ MemoKeyLock(t)
    \/ MemoRecheck(t)
    \/ MemoBodyReturn(t)
    \/ MemoBodyRaise(t)
    \/ MemoReturn(t)

Init == InitTiny /\ InitBind /\ InitCall /\ InitBridge /\ InitMemo /\ InitImage

SpecTiny == Init /\ [][NextTiny]_vars
SpecBind == Init /\ [][NextBind]_vars
SpecCall == Init /\ [][NextCall]_vars
SpecBridge == Init /\ [][NextBridge]_vars
SpecMemo == Init /\ [][NextMemo]_vars
SpecImage == Init /\ [][NextImage]_vars

\* the calls of one memoized function
NextProducer ==
    \/ \E t \in MemoThreads, c \in {i \in MemoInputs : i.f = "producer"} :
          MemoCall(t, c)
    \/ \E t \in MemoThreads : MemoStep(t)

\* memoized with threads that are scheduled while they have a step to take
\* and wrapped functions that return or raise
SpecMemoFair ==
    /\ Init
    /\ [][NextProducer]_vars
    /\ \A t \in MemoThreads : WF_vars(MemoStep(t))

\* the funneled policy on its own (PYSTACIA_IMPL is left unset): the worker
\* thread is scheduled whenever it has something to do, the callables it
\* runs terminate, and a caller whose response is there is woken up
NextFunneled ==
    \/ \E a \in Callers, raises \in BOOLEAN : CallFunneled(a, raises)
    \/ \E a \in Callers : GetBridgeOnly(a)
    \/ WorkerTake
    \/ WorkerFinish
    \/ \E a \in Callers : CallerResume(a)

SpecFunneled ==
    /\ Init
    /\ [][NextFunneled]_vars
    /\ WF_vars(WorkerTake)
    /\ WF_vars(WorkerFinish)
    /\ \A a \in Callers : WF_vars(CallerResume(a))

\* library start-up: the import of tinyimg and the creation of images, next
\* to the dispatcher of pystacia
NextInit ==
    \/ TinyInit
    \/ ImageNew
    \/ NextCall

SpecInit == Init /\ [][NextInit]_vars

\* ---------------------------------------------------------------- C1, C2
\* The operations C1 names (every public operation but __del__).
C1Ops == GuardedOps \cup CheckedOps \cup GetterOps
             \cup {"eval", "size", "debug", "clone", "close"}

\* C1: once close() has completed, every later operation on that Image
\* fails with the closed-resource error and issues no native call.
C1_ClosedOpsFail ==
    (last.op \in C1Ops /\ last.closedBefore)
        => (last.outcome = "closed_error" /\ last.native = 0)

\* C2: DestroyMagickWand is invoked at most once for each native wand; a
\* second close() raises the closed-resource error without a native call,
\* and __del__ on a closed Image does nothing.
C2_NoDoubleFree ==
    /\ \A w \in WandIds : destroyCalls[w] <= 1
    /\ \A w \in WandIds : (wands[w] = "destroyed") <=> (destroyCalls[w] = 1)
    /\ (last.op = "close" /\ last.closedBefore)
          => (last.outcome = "closed_error" /\ last.native = 0)
    /\ (last.op = "del" /\ last.closedBefore)
          => (last.outcome = "ok" /\ last.native = 0)

\* C2 (frame): close() or __del__ on a closed Image leaves the native
\* wands as they are.
C2_ClosedCloseNoDestroy ==
    [][(last'.op \in {"close", "del"} /\ last'.closedBefore /\ last' # last)
          => (wands' = wands /\ destroyCalls' = destroyCalls)]_vars

\* C2 witness: one wand was destroyed by eval, another by close, and a
\* second close on the closed Image has just been refused.
C2_Witness ==
    /\ last.op = "close" /\ last.closedBefore /\ last.outcome = "closed_error"
    /\ Cardinality({w \in WandIds : destroyCalls[w] = 1}) >= 2


\* ---------------------------------------------------------------- C3
\* C3: every thread that returns from get_c_method holds a symbol whose
\* argtypes and restype are both the descriptor-table contract.
C3_ReturnedSymbolBound ==
    \A t \in BindThreads :
        (bpc[t] = "done" /\ bheld[t].kind = "pair")
            => /\ bheld[t].argtypes = ContractArgtypes(bcall[t].cat, bcall[t].m)
               /\ bheld[t].restype = ContractRestype(bcall[t].cat, bcall[t].m)


\* ---------------------------------------------------------------- C4, C5
\* the boolean-success symbol of the current c_call reported false
BooleanFailure ==
    /\ creq.fn = "c_call"
    /\ CName \in Exported
    /\ sym[CName].restype = "MagickBoolean"
    /\ cres = Val("bool", "false")

\* C4: a c_call whose boolean-success native call reports false queries
\* get_exception on the originating handle, converts the description to
\* text, releases the buffer with relinquish_memory exactly once and raises
\* PystaciaException carrying that text, in this order; it never returns
\* normally.
C4_FailureSequence ==
    (cpc = "done" /\ BooleanFailure)
        => /\ cout.kind = "raise"
           /\ cout.exc = "PystaciaException"
           /\ cout.msg = buf.text
           /\ buf.releases = 1
           /\ clog = << Event("call", CName, cargs[1].kind),
                        Event("call", "MagickGetException", cargs[1].kind),
                        Event("text", "string_at", ""),
                        Event("call", "MagickRelinquishMemory", ""),
                        Event("raise", "PystaciaException", "") >>

\* C5: the error raised for a boolean-success failure by c_call and by
\* guard carries a non-empty message, whatever the description is.
C5_NonEmptyMessage ==
    (cpc = "done" /\ cout.kind = "raise" /\ cout.exc = "PystaciaException")
        => (cout.hasMsg /\ cout.msg # "")


\* ---------------------------------------------------------------- C6 - C9
\* the funneled policy: PYSTACIA_IMPL does not select the direct one
Funneled == Upper(envAtBuild) # "SIMPLE"

\* the requests of caller a that are queued, executing or not yet collected
Outstanding(a) ==
    Cardinality({k \in 1..Len(queue) : queue[k].caller = a})
        + (IF wcur.caller = a THEN 1 ELSE 0)
        + (IF resp[a] # NoAnswer THEN 1 ELSE 0)

\* C6: under the funneled policy at most one native call is executing at
\* any time, and each caller has at most one outstanding request because it
\* blocks until its own call has completed.
C6_OneNativeCallAtATime ==
    Funneled =>
        /\ Cardinality(active) <= 1
        /\ active \subseteq {wcur.id}
        /\ \A a \in Callers :
              /\ Outstanding(a) <= 1
              /\ (tpc[a] = "blocked") <=> (Outstanding(a) = 1)

C6_Witness ==
    /\ Funneled
    /\ Cardinality(active) = 1
    /\ \A a \in Callers : tpc[a] = "blocked"

\* C7: under the funneled policy calls are executed in submission order.
C7_SubmissionOrder ==
    Funneled =>
        /\ Len(execLog) <= Len(submitLog)
        /\ execLog = SubSeq(submitLog, 1, Len(execLog))

C7_Witness ==
    /\ Funneled
    /\ Len(execLog) >= 2
    /\ treq[1].id # 0 /\ treq[2].id # 0 /\ treq[2].id < treq[1].id

\* C8: the exception of a callable that raised on the worker reaches exactly
\* the thread that submitted it, with its message; it is never swallowed or
\* replaced by a normal return.
C8_FailureReachesCaller ==
    Funneled =>
        \A a \in Callers :
            /\ resp[a] # NoAnswer => resp[a] = Outcome(treq[a])
            /\ tout[a] # NoAnswer => tout[a] = Outcome(treq[a])
            /\ (tpc[a] = "idle" /\ treq[a] # NoRequest) => tout[a] = Outcome(treq[a])

C8_Witness ==
    /\ Funneled
    /\ \E a, c \in Callers :
          /\ tout[a].kind = "raise" /\ treq[a].raises
          /\ tout[c].kind = "return"

\* no step of the bridge can be taken
BridgeQuiet ==
    /\ wpc # "executing"
    /\ ~(wpc = "waiting" /\ queue # <<>>)
    /\ \A a \in Callers : tpc[a] \notin {"entered", "direct"}
    /\ \A a \in Callers : ~(tpc[a] = "blocked" /\ resp[a] # NoAnswer)

\* C9: a call that raises on the worker does not stop the worker: every
\* call submitted after a failed call is still executed and answered.
C9_WorkerSurvivesFailure ==
    Funneled =>
        /\ wpc \in {"waiting", "executing"}
        /\ BridgeQuiet =>
              /\ {execLog[n] : n \in 1..Len(execLog)} = 1..Len(submitLog)
              /\ answered = 1..Len(submitLog)
              /\ \A a \in Callers : tpc[a] = "idle"

C9_Witness ==
    /\ Funneled
    /\ wfail
    /\ BridgeQuiet
    /\ \E a \in Callers : tout[a].kind = "raise" /\ treq[a].id = 1
    /\ \E a \in Callers : tout[a].kind = "return" /\ treq[a].id = Len(submitLog)
    /\ Len(submitLog) >= 2


\* ---------------------------------------------------------------- C10
\* the threads running the wrapped body for key k
InBody(k) == {t \in MemoThreads : mpc[t] = "body" /\ mkey[t] = k}

\* C10: for any interleaving of threads calling the memoized function with
\* the same arguments the wrapped body is executed exactly once and all
\* calls return the same cached value (a run of the body that raises stores
\* nothing, and is followed by another run: without one, one run serves
\* every call).
C10_BodyRunsOnce ==
    \A k \in MemoKeys :
        /\ Cardinality(InBody(k)) <= 1
        /\ okRuns[k] <= 1
        /\ ~anyRaised[k] => bodyRuns[k] <= 1
        /\ \A t \in MemoThreads :
              (mkey[t] = k /\ mret[t].kind = "return")
                  => /\ cache[k].hasValue
                     /\ mret[t].val = cache[k].value
                     /\ okRuns[k] = 1
                     /\ bodyRuns[k] >= 1

\* C10 witness: every thread called with the same arguments while the value
\* was not there yet, all returned, and the body ran once.
C10_Witness ==
    /\ \A t \in MemoThreads :
          /\ minp[t] = [f |-> "producer", args |-> <<>>, kw |-> {}]
          /\ mpc[t] = "done" /\ mret[t].kind = "return"
    /\ bodyRuns[key("producer", <<>>, {})] = 1
    /\ mcalls = NMemoThreads


\* ---------------------------------------------------------------- C11
\* C11: in any sequence of calls of a memoized function with the same
\* arguments, once a run of the body has returned, its value is in the cache
\* for good: the body is not started again for that key, the cached value is
\* never replaced or removed, and every call returns it, also when the value
\* is None or another false value; when no run raised, that run is the
\* first and only one.
C11_FirstValueKept ==
    /\ [](\A k \in MemoKeys :
            /\ cache[k].hasValue => cache[k].value.run >= 1
            /\ (cache[k].hasValue /\ ~anyRaised[k])
                   => (cache[k].value.run = 1 /\ bodyRuns[k] = 1)
            /\ \A t \in MemoThreads :
                  (mkey[t] = k /\ mret[t].kind = "return")
                      => (cache[k].hasValue /\ mret[t].val = cache[k].value))
    /\ [][\A k \in MemoKeys :
            cache[k].hasValue
                => /\ cache'[k].hasValue
                   /\ cache'[k].value = cache[k].value
                   /\ bodyRuns'[k] = bodyRuns[k]]_vars

\* C11 witness: the one run of the body returned a false value, and every
\* call, a repeated call of one thread among them, returned that value.
C11_Witness ==
    \E k \in MemoKeys :
        /\ cache[k].hasValue
        /\ ~cache[k].value.truth
        /\ bodyRuns[k] = 1
        /\ mcalls > NMemoThreads
        /\ \A t \in MemoThreads :
              /\ mkey[t] = k
              /\ mpc[t] = "done"
              /\ mret[t] = [kind |-> "return", val |-> cache[k].value]

\* ---------------------------------------------------------------- C12
\* C12: the cache has one entry per (function, positional arguments, keyword
\* arguments): the value of an entry was made by a run of that entry's
\* function with that entry's arguments, each key's body runs once when no
\* run raised, and a call never returns a value made for other arguments or
\* by another function.
C12_EntryPerKey ==
    /\ \A k \in MemoKeys :
          /\ cache[k].hasValue
                => (cache[k].value.f = k.f /\ cache[k].value.args = k.args)
          /\ ~anyRaised[k] => bodyRuns[k] <= 1
    /\ \A t \in MemoThreads :
          mret[t].kind = "return"
              => /\ mret[t].val.f = minp[t].f
                 /\ mret[t].val.args = minp[t].args
                 /\ mret[t].val = cache[key(minp[t].f, minp[t].args, minp[t].kw)].value

\* C12 witness: producer() and producer(1) have both been called and have
\* returned, each after one run of the body, and the two values differ.
C12_Witness ==
    \E t, u \in MemoThreads :
        /\ minp[t] = [f |-> "producer", args |-> <<>>, kw |-> {}]
        /\ minp[u] = [f |-> "producer", args |-> <<1>>, kw |-> {}]
        /\ mret[t].kind = "return"
        /\ mret[u].kind = "return"
        /\ mret[t].val # mret[u].val
        /\ bodyRuns[mkey[t]] = 1
        /\ bodyRuns[mkey[u]] = 1


\* ---------------------------------------------------------------- C13
\* C13: a clone is a new Image with a native wand of its own: every Image
\* that is not closed holds a wand that has not been destroyed and that no
\* other Image holds, so closing an image destroys only its own wand and
\* leaves its clone, or the image it was cloned from, live.
C13_CloneIndependent ==
    \A i \in ImageIds :
        (Alive(i) /\ ~images[i].closed)
            => /\ images[i].wand # NULL
               /\ wands[images[i].wand] = "live"
               /\ \A j \in ImageIds \ {i} :
                     images[j].st # "none" => images[j].wand # images[i].wand

\* C13 witness: an image was closed while its clone (or the image it was
\* cloned from) was open, and the other one is still live.
C13_Witness ==
    /\ last.op = "close" /\ last.outcome = "ok"
    /\ \E j \in ImageIds :
          /\ j # last.img
          /\ images[j].origin = last.img \/ images[last.img].origin = j
          /\ Alive(j) /\ ~images[j].closed
          /\ wands[images[j].wand] = "live"
          /\ destroyCalls[images[j].wand] = 0

\* ---------------------------------------------------------------- C14
\* the images that hold native wand w
Owners(w) == {i \in ImageIds : images[i].st = "alive" /\ images[i].wand = w}

\* C14: after every operation that allocates a native wand, each allocated
\* wand is either destroyed or owned by exactly one Image.
C14_EveryWandOwned ==
    \A w \in WandIds : wands[w] = "live" => Cardinality(Owners(w)) = 1


\* ---------------------------------------------------------------- C15
\* C15: get_c_method for a symbol the library does not export returns the
\* false sentinel when throw is False and raises when throw is True (the
\* default); either way the library gets no such symbol and no contract is
\* attached to anything for it.
C15_AbsentSymbol ==
    /\ DOMAIN sym = Exported
    /\ \A t \in BindThreads :
          (bpc[t] = "done" /\ BName(t) \notin Exported)
              => /\ bheld[t].kind = IF bcall[t].throw THEN "raised" ELSE "false"
                 /\ bheld[t].argtypes = UnsetArgtypes
                 /\ bheld[t].restype = UnsetRestype

\* C15 witness: one thread probed the absent symbol with throw=False and
\* got the sentinel, another asked for it with throw=True and got the error.
C15_Witness ==
    \E t, u \in BindThreads :
        /\ bpc[t] = "done" /\ bpc[u] = "done"
        /\ BName(t) \notin Exported /\ BName(u) \notin Exported
        /\ ~bcall[t].throw /\ bheld[t].kind = "false"
        /\ bcall[u].throw /\ bheld[u].kind = "raised"

\* ---------------------------------------------------------------- C16
\* C16: once a symbol has argtypes, no step of any get_c_method call, for
\* any category or logical name, changes them, and once it has the restype
\* of a contract no step changes that either.
C16_ContractStable ==
    [][\A n \in DOMAIN sym :
          /\ sym[n].argtypes # UnsetArgtypes => sym'[n].argtypes = sym[n].argtypes
          /\ sym[n].restype # UnsetRestype => sym'[n].restype = sym[n].restype]_vars

\* C16 witness: a thread that found the symbol unbound is about to assign
\* its restype although another thread has attached the whole contract by
\* now, while a different symbol is bound as well.
C16_Witness ==
    \E t \in BindThreads :
        /\ bpc[t] = "restype"
        /\ sym[BName(t)].argtypes # UnsetArgtypes
        /\ sym[BName(t)].restype # UnsetRestype
        /\ \E n \in DOMAIN sym : n # BName(t) /\ sym[n].argtypes # UnsetArgtypes


\* ---------------------------------------------------------------- C17
\* C17: the bridge is built on SimpleImpl exactly when PYSTACIA_IMPL, read
\* when the bridge is built and compared without regard to case, is
\* 'SIMPLE'; when it is absent or has any other value the bridge is built
\* on ThreadImpl.
C17_PolicyFromEnv ==
    bridge # "none" =>
        /\ bridge \in {"SimpleImpl", "ThreadImpl"}
        /\ (bridge = "SimpleImpl") <=> (envAtBuild \in {"simple", "SIMPLE"})

\* C17 witness: the variable was set in lower case and a call ran directly
\* in its caller's thread.
C17_Witness ==
    /\ bridge = "SimpleImpl"
    /\ envAtBuild = "simple"
    /\ \E a \in Callers : tpc[a] = "direct"

\* ---------------------------------------------------------------- C18
\* C18: the policy is chosen once: the bridge built by the first get_bridge
\* is never replaced, whatever PYSTACIA_IMPL becomes afterwards, and every
\* call of every thread goes the way of that bridge.
C18_BridgeChosenOnce ==
    /\ [](\A a \in Callers :
            /\ tpc[a] = "blocked" => bridge = "ThreadImpl"
            /\ tpc[a] \in {"entered", "direct"} => bridge = "SimpleImpl")
    /\ [][bridge # "none" => (bridge' = bridge /\ envAtBuild' = envAtBuild)]_vars

\* C18 witness: the bridge was built on ThreadImpl, PYSTACIA_IMPL was set to
\* SIMPLE afterwards, and the calls all threads made, the latest of them
\* under the new value, were handed to the worker.
C18_Witness ==
    /\ bridge = "ThreadImpl"
    /\ envAtBuild \notin {"simple", "SIMPLE"}
    /\ envAtCall \in {"simple", "SIMPLE"}
    /\ \A a \in Callers : tpc[a] = "blocked"


\* ---------------------------------------------------------------- C20
\* the arguments c_call was given, the receiver first when it is a Resource
Supplied == (IF creq.obj.res THEN <<AsArg(creq.obj)>> ELSE <<>>) \o creq.args

\* C20: the native symbol is invoked with the receiver's raw pointer when
\* the receiver is a Resource and then every supplied argument in order,
\* none dropped or duplicated: each Resource as its raw pointer, each text
\* in a byte-string position as bytes, every other argument as it is.
C20_FullyMarshaled ==
    (creq.fn = "c_call" /\ cpc = "invoke") =>
        /\ Len(cargs) = Len(Supplied)
        /\ \A k \in 1..Len(cargs) :
              cargs[k] =
                  IF Supplied[k].t = "res"
                  THEN Ptr(Supplied[k].v, Supplied[k].kind)
                  ELSE IF sym[CName].argtypes.types[k] = "c_char_p"
                  THEN [Supplied[k] EXCEPT !.t = "bytes"]
                  ELSE Supplied[k]


\* ---------------------------------------------------------------- C19
\* the positions of c_call from the marshaling on
AfterInit == {"marshal", "invoke", "decode", "get_exception", "text",
              "relinquish", "raise"}

\* C19: each library's genesis runs at most once; from the marshaling on,
\* so when the resolved symbol is invoked, a c_call that was not given
\* __init=False has the library initialized by one run of genesis; and no
\* tinyimg Image or wand exists unless the import of tinyimg has run genesis
\* once and registered terminus as an exit hook.
C19_InitBeforeUse ==
    /\ genesis <= 1
    /\ tlib.genesis <= 1
    /\ (creq.fn = "c_call" /\ creq.init # "false" /\ cpc \in AfterInit)
           => genesis = 1
    /\ ((\E i \in ImageIds : images[i].st # "none")
            \/ (\E w \in WandIds : wands[w] # "free"))
           => (tlib.st = "loaded" /\ tlib.genesis = 1 /\ tlib.atexit)

\* C19 witness: a tinyimg Image exists after the import, and a c_call
\* without __init has invoked its symbol after the library was initialized.
C19_Witness ==
    /\ \E i \in ImageIds : Alive(i)
    /\ tlib.atexit
    /\ creq.fn = "c_call" /\ creq.init = "absent"
    /\ cpc = "decode"
    /\ genesis = 1


\* ---------------------------------------------------------------- C21
\* C21: what c_call returns is the native result decoded by the bound
\* restype: a c_char_p result as text, an enum result as its plain integer,
\* a true boolean-success result and a result of any other type as the
\* native call produced it.
C21_ResultDecoded ==
    (creq.fn = "c_call" /\ cpc = "done" /\ cout.kind = "return") =>
        LET restype == sym[CName].restype
        IN /\ restype = "c_char_p"
                 => cout.val = [t |-> "str", v |-> cres.v, kind |-> cres.kind]
           /\ restype = "enum"
                 => cout.val = [t |-> "int", v |-> cres.v, kind |-> ""]
           /\ restype \notin {"c_char_p", "enum"} => cout.val = cres
           /\ restype = "MagickBoolean" => cres.v = "true"

\* C21 witness: a call of a symbol with a c_char_p restype has returned the
\* bytes of the native result as text.
C21_Witness ==
    /\ creq.fn = "c_call" /\ cpc = "done" /\ cout.kind = "return"
    /\ sym[CName].restype = "c_char_p"
    /\ cres.t = "bytes" /\ cout.val.t = "str" /\ cout.val.v = cres.v


\* ---------------------------------------------------------------- C22
\* the receiver type the descriptor table declares for a category
Receiver(cat) ==
    IF cat \in {"magick", "image"} THEN <<"MagickWand_p">>
    ELSE IF cat = "pixel" THEN <<"PixelWand_p">>
    ELSE <<>>

\* the result type a category gives the entries that declare none
DefaultResult(cat) ==
    IF cat = "wand" THEN "MagickWand_p"
    ELSE IF cat = "pwand" THEN "PixelWand_p"
    ELSE "None"

\* C22: a symbol that has a contract has the one of its table entry: as
\* argtypes the category's receiver type, when the category has one,
\* followed by the entry's declared argument types, and as restype the
\* entry's own result type when it has one, else the category's default,
\* which is none when the category has no default.
C22_ContractOfEntry ==
    \A n \in DOMAIN sym :
        \E e \in Table :
            /\ Format(e.cat, e.m) = n
            /\ sym[n].argtypes # UnsetArgtypes
                  => (sym[n].argtypes.set
                        /\ sym[n].argtypes.types = Receiver(e.cat) \o e.args)
            /\ sym[n].restype # UnsetRestype
                  => sym[n].restype = IF e.res # <<>> THEN e.res[1]
                                      ELSE DefaultResult(e.cat)

\* C22 witness: three symbols are bound: one with a receiver and a result
\* type of its own, one with a receiver and no result type, and one without
\* receiver that takes its category's default result type.
C22_Witness ==
    /\ sym["MagickSetSize"] =
          [argtypes |-> [set |-> TRUE,
                         types |-> <<"MagickWand_p", "c_size_t", "c_size_t">>],
           restype |-> "MagickBoolean"]
    /\ sym["PixelSetRed"] =
          [argtypes |-> [set |-> TRUE, types |-> <<"PixelWand_p", "c_double">>],
           restype |-> "None"]
    /\ sym["NewMagickWand"] =
          [argtypes |-> [set |-> TRUE, types |-> <<>>], restype |-> "MagickWand_p"]


\* ---------------------------------------------------------------- C23
\* the threads that have made a call
Submitters == {a \in Callers : treq[a] # NoRequest}

\* C23: for calls issued by one thread, what can be observed does not
\* depend on the policy of the bridge: under either policy the callables
\* are executed one after the other in the order of the calls, each before
\* the next call is made, and each call gives its caller the value or the
\* exception of its own callable.
C23_PoliciesAgree ==
    Cardinality(Submitters) <= 1 =>
        /\ \A n \in 1..Len(submitLog) : submitLog[n] = n
        /\ Len(execLog) <= Len(submitLog)
        /\ Len(submitLog) - Len(execLog) <= 1
        /\ \A n \in 1..Len(execLog) : execLog[n] = n
        /\ Cardinality(active) <= 1
        /\ \A a \in Submitters :
              /\ tout[a] # NoAnswer => tout[a] = Outcome(treq[a])
              /\ tpc[a] = "idle"
                    => /\ tout[a] = Outcome(treq[a])
                       /\ Len(execLog) = Len(submitLog)
                       /\ answered = 1..Len(submitLog)
                       /\ active = {}

\* C23 witness: one thread has made all the calls through the worker; an
\* earlier one raised on the worker, and the last one returned its value.
C23_Witness ==
    /\ bridge = "ThreadImpl"
    /\ Cardinality(Submitters) = 1
    /\ Len(submitLog) = MaxCalls
    /\ wfail
    /\ \E a \in Submitters :
          tpc[a] = "idle" /\ tout[a] = [kind |-> "return", id |-> MaxCalls]

\* C23 second case: one thread has made all the calls in its own thread,
\* with the same outcome.
C23_WitnessDirect ==
    /\ bridge = "SimpleImpl"
    /\ Cardinality(Submitters) = 1
    /\ Len(submitLog) = MaxCalls
    /\ \E a \in Submitters :
          tpc[a] = "idle" /\ tout[a] = [kind |-> "return", id |-> MaxCalls]


\* ---------------------------------------------------------------- C24
\* C24: under the funneled policy, with a worker that is scheduled and
\* callables that terminate, every submitted call is eventually answered:
\* its caller is resumed with the result or the exception.
C24_EveryCallCompletes ==
    \A n \in 1..MaxCalls : (Len(submitLog) >= n) ~> (n \in answered)

\* C24 witness: every thread has been blocked in a call and has been
\* resumed, one of them with the exception of its callable.
C24_Witness ==
    /\ bridge = "ThreadImpl"
    /\ Len(submitLog) = MaxCalls
    /\ answered = 1..MaxCalls
    /\ wfail
    /\ \A a \in Callers : tpc[a] = "idle" /\ tout[a] = Outcome(treq[a])
    /\ \E a \in Callers : tout[a].kind = "raise"


\* ---------------------------------------------------------------- C26
\* the positions of the events of the given kind and name in the log
Positions(ev, name) ==
    {k \in 1..Len(clog) : clog[k].ev = ev /\ clog[k].name = name}

\* C26: guard(wand, callable, msg) invokes callable exactly once.  A truthy
\* result is returned unchanged.  A falsy result raises PystaciaException:
\* with msg when msg was given, and then the exception facility of the
\* library is neither queried nor released; otherwise with the description
\* that MagickGetException gives for wand, and the description buffer is
\* released with MagickRelinquishMemory exactly once, before the raise.
C26_GuardContract ==
    (cpc = "done" /\ creq.fn = "guard") =>
        /\ Positions("call", "callable") = {1}
        /\ cres.v \notin {"false", "0"}
              => cout = Return(cres) /\ Len(clog) = 1 /\ buf = NoBuf
        /\ cres.v \in {"false", "0"}
              => /\ cout.kind = "raise"
                 /\ cout.exc = "PystaciaException"
                 /\ clog[Len(clog)] = Event("raise", "PystaciaException", "")
                 /\ IF creq.msg # ""
                    THEN /\ cout.msg = creq.msg
                         /\ Positions("call", "MagickGetException") = {}
                         /\ Positions("call", "MagickRelinquishMemory") = {}
                         /\ buf = NoBuf
                    ELSE /\ Positions("call", "MagickGetException") = {2}
                         /\ clog[2].h = creq.obj.kind
                         /\ buf.st # "none"
                               => /\ cout.msg = buf.text
                                  /\ buf.st = "released"
                                  /\ buf.releases = 1
                                  /\ Positions("call", "MagickRelinquishMemory") = {3}
                                  /\ Len(clog) = 4
                         /\ buf.st = "none"
                               => Positions("call", "MagickRelinquishMemory") = {}

\* C26 witness: guard without msg has raised for a falsy result, with the
\* description of the library, and has released its buffer.
C26_Witness ==
    /\ cpc = "done"
    /\ creq.fn = "guard"
    /\ creq.msg = ""
    /\ cres.v = "0"
    /\ cout.kind = "raise"
    /\ cout.msg = "unable to open image"
    /\ buf.releases = 1

\* C26 second case: guard with msg has raised with it, and a truthy result
\* that is not a boolean has been returned as it was.
C26_WitnessMsg ==
    /\ cpc = "done"
    /\ creq.fn = "guard"
    /\ creq.msg = GivenMsg
    /\ cout.kind = "raise"
    /\ cout.msg = GivenMsg


\* ---------------------------------------------------------------- C27
\* C27: whenever c_call handles a false boolean-success result, the handle
\* it passes to the get_exception query of the 'magick' category is of the
\* kind that the contract of get_exception declares for its receiver, a
\* MagickWand; for every boolean-success entry of every category, the
\* set_color of the pixel category included.
C27_ExceptionHandleIsWand ==
    cpc = "get_exception"
        => /\ FirstKind(cargs) = "MagickWand"
           /\ FirstKind(cargs) \o "_p"
                 = ContractArgtypes("magick", <<"get_exception">>).types[1]


\* ---------------------------------------------------------------- C28
\* C28: when the function wrapped by memoized raises, the exception goes to
\* the caller, no value is cached for the key, and the key's lock and the
\* global lock are released: a thread that is not inside memoized holds no
\* lock, and a value is cached for a key only by a run of the body that
\* returned.  A later call with that key, from any thread, runs the body
\* again and does not block forever: every call is completed.
C28_RaiseLeavesNoTrace ==
    /\ [][\A t \in MemoThreads :
            (mpc[t] = "body" /\ mpc'[t] = "done")
                => /\ mret'[t].kind = "raise"
                   /\ ~cache'[mkey[t]].hasValue
                   /\ cache'[mkey[t]].lock = 0
                   /\ glock' # t]_vars
    /\ [](\A t \in MemoThreads :
            mpc[t] \in {"idle", "done"}
                => /\ glock # t
                   /\ \A k \in MemoKeys : cache[k].lock # t)
    /\ [](\A k \in MemoKeys : cache[k].hasValue <=> okRuns[k] > 0)
    /\ \A t \in MemoThreads :
          (mpc[t] \notin {"idle", "done"}) ~> (mpc[t] = "done")

\* C28 witness: the body raised in one thread; another thread then called
\* with the same key, ran the body again and got its value.
C28_Witness ==
    \E t, u \in MemoThreads :
        /\ t # u
        /\ mkey[t] = mkey[u]
        /\ mpc[t] = "done" /\ mret[t].kind = "raise"
        /\ mpc[u] = "done" /\ mret[u].kind = "return"
        /\ anyRaised[mkey[t]]
        /\ bodyRuns[mkey[t]] = 2
        /\ cache[mkey[t]].lock = 0 /\ glock = 0


\* ---------------------------------------------------------------- C25
\* the last call was a completed call of a method with the given docstring
Completed(doc) ==
    /\ plast.m # ""
    /\ ~plast.raised
    /\ Method(plast.m).doc = doc
    /\ ~Private(plast.m)

\* C25: when PYSTACIA_NO_CHAINS is not set, every public method of Image
\* whose docstring says 'This method can be chained' returns the image it
\* was called on whenever it completes without raising, whatever its body
\* returns; a method documented with ':rtype:' returns what its body
\* returns.
C25_ChainedReturnImage ==
    chains = "unset" =>
        /\ {d.name : d \in {x \in ImageDict :
                ~Private(x.name) /\ x.callable /\ x.doc = "chained"}}
              \subseteq wrapped
        /\ \A d \in ImageDict : d.doc = "rtype" => d.name \notin wrapped
        /\ Completed("chained") => plast.ret = "self"
        /\ Completed("rtype") => plast.ret = Method(plast.m).own

\* C25 witness: roll, whose body returns nothing, has completed and has
\* given the image back.
C25_Witness ==
    /\ chains = "unset"
    /\ plast.m = "roll"
    /\ ~plast.raised
    /\ Method("roll").own = "None"
    /\ plast.ret = "self"

\* C25 second case: get_blob has returned its blob.
C25_WitnessRtype ==
    /\ chains = "unset"
    /\ plast.m = "get_blob"
    /\ ~plast.raised
    /\ plast.ret = "blob"


\* ---------------------------------------------------------------- C29
\* C29: trim, wave, splice and fill close every Color they made before they
\* return normally: the Colors that are live after the call are those that
\* were live before it; a background given to trim by its caller is among
\* them.
C29_TemporariesClosed ==
    (plast.m \in {"trim", "wave", "splice", "fill"} /\ ~plast.raised)
        => /\ colors = plast.live
           /\ plast.given # 0 => plast.given \in colors

\* ---------------------------------------------------------------- C30
\* C30: get_blob leaves the format, the compression and the quality of the
\* image as they were before the call, when it returns the blob and when
\* it raises.
C30_SettingsKept ==
    plast.m = "get_blob" => pset = plast.before

====
